---- MODULE Spec2Model ----
(***************************************************************************)
(* A model of the GAP image codec (Adi-Baba/GAP): the adaptive range       *)
(* coder of core/src/entropy.zig, the container reader and writer of       *)
(* engine/decoder.go, the parallel patch reconstruction, the permutation   *)
(* table of core/src/gradient.zig and the polylog filters of               *)
(* core/src/pltm.zig.                                                      *)
(*                                                                         *)
(* Numbers of 32 and 64 bits (range, low, code) are kept as pairs <<h, l>> *)
(* standing for h * 2^16 + l with 0 <= l < 2^16, because they exceed the   *)
(* integers the model checker computes with; every other quantity is a     *)
(* plain integer.                                                          *)
(***************************************************************************)
EXTENDS Integers, Sequences, FiniteSets, Bags, TLC

VARIABLES
    rcPc,        \* position in gap_compress_data / gap_decompress_data
    rcInput,     \* the byte sequence handed to gap_compress_data
    rcPos,       \* index of the next input byte to encode
    encModel,    \* the encoder's FrequencyModel
    enc,         \* the RangeEncoder
    rcData,      \* the bytes gap_compress_data returned
    decModel,    \* the decoder's FrequencyModel
    dec,         \* the RangeDecoder
    rcOutput,    \* the bytes gap_decompress_data has written
    permPc,      \* position in the construction of one angle_map_table row
    permCos,     \* cos_a of the row, as an integer direction component
    permSin,     \* sin_a of the row, as an integer direction component
    permQuant,   \* the granularity to which the projections are rounded
    permRow,     \* the table row: 64 source indices
    pltPc,       \* which polylog filter has been applied
    pltS,        \* the filter's s, in hundredths
    pltCoeffs,   \* the 64 coefficients handed to the filter
    pltOut,      \* the 64 coefficients the filter left
    splitPc,     \* position of gapDecodePlaneSplit
    splitWidth,  \* width of the plane
    splitHeight, \* height of the plane
    splitCpu,    \* runtime.NumCPU()
    splitParsed, \* pIdx: the number of patches the sequential stage parsed
    allCoeffs,   \* per patch: whose coefficients the slice holds, and how
                 \* often the inverse filter has run over them in place
    workers,     \* the worker goroutines: range, position, pixelBuf
    pix,         \* img.Pix
    pixWrites,   \* per pixel: the number of stores to it
    codecPc,     \* position of the encode run and of the decode run after it
    image,       \* the source image: width, height, colour per tile
    encS,        \* EncodeImage's s, in hundredths
    encT,        \* EncodeImage's threshold, in hundredths
    file,        \* the bytes of the .gap file
    planeEnc,    \* the three plane encoder goroutines
    patchPool,   \* the buffers in patchPool, a bag
    results,     \* results[idx] of EncodeImage
    encI,        \* the plane EncodeImage writes next
    encErr,      \* what EncodeImage returned
    tampered,    \* what has been done to the file between the two runs
    decHeader,   \* the header DecodeImage read
    allPlaneData,\* the blocks DecodeImage read, per plane
    planeDec,    \* the plane decoder goroutines: position and streams
    decErr,      \* what DecodeImage returned
    rcPushed,    \* the values handed to write_byte_carry, in order
    rcReads,     \* the number of bytes the RangeDecoder asked its buffer for
    fmModel,     \* a FrequencyModel under a sequence of update calls
    fmPrev,      \* the model before the last update call (or run of calls)
    fmLast,      \* the last update: its symbol and the number of calls
    fmSteps,     \* the number of updates and runs of updates so far
    qPc,         \* position of gapEncodePlane and of the parse of its streams
    qWidth,      \* width of the plane
    qHeight,     \* height of the plane
    qX,          \* x of gapEncodePlane's loop
    qY,          \* y of gapEncodePlane's loop
    qPatches,    \* per patch emitted: its origin and what GapCompressPatch gave
    qStreams,    \* angles, counts, maxVals, indices, values
    qParsed,     \* per patch the decoder parsed: count, maxVal, bins
    postPc,      \* the pass DecodeImage is in after the planes are decoded
    postWidth,   \* width of finalImg
    postHeight,  \* height of finalImg
    postCpu,     \* runtime.NumCPU()
    postWorkers, \* the worker goroutines of the pass
    postOut,     \* the buffer the pass writes: img itself or an allocation
    postReads,   \* the pixels read in the pass, with their buffer
    postWrites,  \* the pixels written in the pass, with their buffer
    postLog,     \* the starts and ends of the workers of all passes, in order
    angPc,       \* position of the angle of one patch, from encoder to decoder
    angAngle,    \* the float32 angle gap_analyze_patch returned
    angEncRow,   \* the table row gap_compress_patch permuted with
    angByte,     \* the byte gapEncodePlane stored in Angles
    angDecAngle, \* the float32 angle gapDecodePlaneSplit computed
    angDecRow,   \* the table row gap_decompress_patch scattered with
    dbPc,        \* position of DeblockImageParallel
    dbWidth,     \* width of img
    dbHeight,    \* height of img
    dbBefore,    \* img.Pix before the pass last run, per pixel <<R, G, B, A>>
    dbImg,       \* img.Pix
    gmPc,        \* position of one plane, from EncodeImage to DecodeImage
    gmHeader,    \* the header EncodeImage wrote: Width, Height, Flags
    gmIdx,       \* index of the plane: 0 Y, 1 Cb, 2 Cr
    gmEnc,       \* width and height of planes[idx] in EncodeImage
    gmX,         \* x of the patch gapEncodePlane is at
    gmY,         \* y of the patch gapEncodePlane is at
    gmStreams,   \* the five streams gapEncodePlane has appended to
    gmDec,       \* pWidth, pHeight and the five cursors of the decoder
    rdPc,        \* position of gap_decompress_data on an arbitrary input
    rdInput,     \* input[0..input_len]
    rdN,         \* output_len
    rdDec,       \* the RangeDecoder: range, code, cursor
    rdModel,     \* the FrequencyModel of the decoder
    rdOut,       \* the symbols written to output
    rdLast,      \* the last decode: r_div, the value looked up, the shifts
    rnPc,        \* position of a compression and decompression with a long run
    rnInput,     \* the input: a symbol, the length of its run, the bytes after it
    rnPos,       \* the number of bytes after the run that are encoded
    rnEnc,       \* the RangeEncoder, its model and the extremes of its steps
    rnData,      \* the compressed bytes
    rnDec,       \* the RangeDecoder, its model and the extremes of its steps
    rnCount,     \* the number of symbols decoded
    upPc,        \* position of parallelUpsample
    upDstH,      \* dstH: the height of dst
    upCpu,       \* runtime.NumCPU()
    upI,         \* i of the loop that starts the workers
    upWorkers,   \* per worker started: y0, y1 and the rows it has addressed
    spPc,        \* position of gapDecodePlaneSplit on arbitrary streams
    spPlane,     \* the plane: its index, width, height and initVal
    spStreams,   \* angles, counts, maxVals, indices, values: any bytes
    spX,         \* x of the loop over the patch grid
    spY,         \* y of the loop over the patch grid
    spPtr,       \* ptrA, ptrC, ptrMax, ptrIdx, ptrVal
    spCoords,    \* coords[0..pIdx-1]: the origins of the patches parsed
    spAccess,    \* the stream positions indexed so far: <<stream, index>>
    spSlots,     \* the slots of allCoeffs stored to: <<patch, slot in the patch>>
    spPix        \* img.Pix: per pixel initVal or the patch that stored to it

rcVars == <<rcPc, rcInput, rcPos, encModel, enc, rcData, decModel, dec, rcOutput,
            rcPushed, rcReads>>

fmVars == <<fmModel, fmPrev, fmLast, fmSteps>>

quantVars == <<qPc, qWidth, qHeight, qX, qY, qPatches, qStreams, qParsed>>

postVars == <<postPc, postWidth, postHeight, postCpu, postWorkers, postOut,
              postReads, postWrites, postLog>>

angVars == <<angPc, angAngle, angEncRow, angByte, angDecAngle, angDecRow>>

dbVars == <<dbPc, dbWidth, dbHeight, dbBefore, dbImg>>

geomVars == <<gmPc, gmHeader, gmIdx, gmEnc, gmX, gmY, gmStreams, gmDec>>

rdVars == <<rdPc, rdInput, rdN, rdDec, rdModel, rdOut, rdLast>>

rnVars == <<rnPc, rnInput, rnPos, rnEnc, rnData, rnDec, rnCount>>

upVars == <<upPc, upDstH, upCpu, upI, upWorkers>>

spVars == <<spPc, spPlane, spStreams, spX, spY, spPtr, spCoords, spAccess,
            spSlots, spPix>>

lateVars == <<angVars, dbVars, geomVars, rdVars, rnVars, upVars, spVars>>

permVars == <<permPc, permCos, permSin, permQuant, permRow>>

pltVars == <<pltPc, pltS, pltCoeffs, pltOut>>

splitVars == <<splitPc, splitWidth, splitHeight, splitCpu, splitParsed,
               allCoeffs, workers, pix, pixWrites>>

encVars == <<image, encS, encT, planeEnc, patchPool, results, encI, encErr>>

decVars == <<tampered, decHeader, allPlaneData, planeDec, decErr>>

codecVars == <<codecPc, file, encVars, decVars>>

vars == <<rcVars, permVars, pltVars, splitVars, codecVars, fmVars, quantVars,
          postVars, lateVars>>

(***************************************************************************)
(* Wide unsigned arithmetic on pairs <<h, l>>.                             *)
(***************************************************************************)
W16 == 2^16

Wide(h, l) == <<h, l>>

WNorm(h, l) == <<h + (l \div W16), l % W16>>

WAdd(a, b) == WNorm(a[1] + b[1], a[2] + b[2])

\* a - b for a >= b
WSub(a, b) ==
    IF a[2] >= b[2] THEN <<a[1] - b[1], a[2] - b[2]>>
    ELSE <<a[1] - b[1] - 1, a[2] + W16 - b[2]>>

WLess(a, b) == a[1] < b[1] \/ (a[1] = b[1] /\ a[2] < b[2])

\* k * r for k < 2^14 and r < 2^24, as a wide number
WMul(k, r) == WNorm(k * (r \div W16), k * (r % W16))

\* the i-th hexadecimal digit (i = 0 the lowest) of a 32-bit wide number
WNibble(a, i) ==
    IF i >= 4 THEN (a[1] \div (16 ^ (i - 4))) % 16
    ELSE (a[2] \div (16 ^ i)) % 16

RECURSIVE WDivLoop(_, _, _, _, _)
WDivLoop(a, d, i, q, rem) ==
    IF i < 0 THEN q
    ELSE LET cur == rem * 16 + WNibble(a, i)
         IN WDivLoop(a, d, i - 1, q * 16 + (cur \div d), cur % d)

\* floor(a / d) for a 32-bit wide a and 0 < d < 2^27 (unsigned division)
WDiv(a, d) == WDivLoop(a, d, 7, 0, 0)

\* the integer r < 2^31 as a wide number
WOf(r) == <<r \div W16, r % W16>>

\* (a << 8) & 0xFFFFFFFF
WShl8(a) == <<(a[1] % 256) * 256 + (a[2] \div 256), (a[2] % 256) * 256>>

\* a >> 24
WShr24(a) == a[1] \div 256

(***************************************************************************)
(* core/src/entropy.zig: FrequencyModel.                                   *)
(***************************************************************************)
Top == 2^24

MaxFreq == 2^14

Symbols == 0..255

\* i & -%i: the lowest set bit of i > 0
RECURSIVE LowBit(_)
LowBit(i) == IF i % 2 = 1 THEN 1 ELSE 2 * LowBit(i \div 2)

\* while (i < 257) : (i += i & -%i) bit[i] += delta
RECURSIVE FenwickAdd(_, _, _)
FenwickAdd(bit, i, delta) ==
    IF i < 257
    THEN FenwickAdd([bit EXCEPT ![i] = @ + delta], i + LowBit(i), delta)
    ELSE bit

\* for (0..256) |idx| add counts[idx] at idx + 1, for idx = lo, ..., hi in
\* ascending order.  The range is halved, and the tree of the lower half is
\* computed before the upper half is entered, only to bound the depth of the
\* evaluation.
RECURSIVE RebuildLoop(_, _, _, _)
RebuildLoop(counts, bit, lo, hi) ==
    IF lo = hi
    THEN FenwickAdd(bit, lo + 1, counts[lo])
    ELSE LET mid == (lo + hi) \div 2
             lower == RebuildLoop(counts, bit, lo, mid)
         IN CASE lower \in [0..256 -> Nat] -> RebuildLoop(counts, lower, mid + 1, hi)

rebuild_bit(counts) == RebuildLoop(counts, [i \in 0..256 |-> 0], 0, 255)

\* the sum of counts[lo..hi]
RECURSIVE SumCounts(_, _, _)
SumCounts(counts, lo, hi) ==
    IF lo = hi THEN counts[lo]
    ELSE LET mid == (lo + hi) \div 2
         IN SumCounts(counts, lo, mid) + SumCounts(counts, mid + 1, hi)

FrequencyModelInit ==
    LET counts == [j \in Symbols |-> 1]
    IN [counts |-> counts, total |-> 256, bit |-> rebuild_bit(counts)]

\* update with the tree left as it was when the counts are halved
updateStaleTree(m, symbol) ==
    LET bit1 == FenwickAdd(m.bit, symbol + 1, 1)
        counts1 == [m.counts EXCEPT ![symbol] = @ + 1]
        total1 == m.total + 1
    IN IF total1 >= MaxFreq
       THEN LET halved == [j \in Symbols |-> (counts1[j] \div 2) + 1]
            IN [counts |-> halved, total |-> SumCounts(halved, 0, 255),
                bit |-> bit1]
       ELSE [counts |-> counts1, total |-> total1, bit |-> bit1]

\* update with the counts halved to counts[j] >> 1
updateHalved(m, symbol) ==
    LET bit1 == FenwickAdd(m.bit, symbol + 1, 1)
        counts1 == [m.counts EXCEPT ![symbol] = @ + 1]
        total1 == m.total + 1
    IN IF total1 >= MaxFreq
       THEN LET halved == [j \in Symbols |-> counts1[j] \div 2]
            IN [counts |-> halved, total |-> SumCounts(halved, 0, 255),
                bit |-> rebuild_bit(halved)]
       ELSE [counts |-> counts1, total |-> total1, bit |-> bit1]

update(m, symbol) ==
    LET bit1 == FenwickAdd(m.bit, symbol + 1, 1)
        counts1 == [m.counts EXCEPT ![symbol] = @ + 1]
        total1 == m.total + 1
    IN IF total1 >= MaxFreq
       THEN LET halved == [j \in Symbols |-> (counts1[j] \div 2) + 1]
            IN [counts |-> halved, total |-> SumCounts(halved, 0, 255),
                bit |-> rebuild_bit(halved)]
       ELSE [counts |-> counts1, total |-> total1, bit |-> bit1]

RECURSIVE CumLoop(_, _, _)
CumLoop(bit, i, sum) ==
    IF i > 0 THEN CumLoop(bit, i - LowBit(i), sum + bit[i]) ELSE sum

get_cum(m, symbol) == CumLoop(m.bit, symbol, 0)

get_range(m, symbol) == [low |-> get_cum(m, symbol), range |-> m.counts[symbol]]

\* the descent that steps only when the sum stays below the value
RECURSIVE SymbolLoopStrict(_, _, _, _, _)
SymbolLoopStrict(bit, value, probe, idx, sum) ==
    IF probe > 0
    THEN LET next_idx == idx + probe
         IN IF next_idx < 257 /\ sum + bit[next_idx] < value
            THEN SymbolLoopStrict(bit, value, probe \div 2, next_idx, sum + bit[next_idx])
            ELSE SymbolLoopStrict(bit, value, probe \div 2, idx, sum)
    ELSE <<idx, sum>>

RECURSIVE SymbolLoop(_, _, _, _, _)
SymbolLoop(bit, value, probe, idx, sum) ==
    IF probe > 0
    THEN LET next_idx == idx + probe
         IN IF next_idx < 257 /\ sum + bit[next_idx] <= value
            THEN SymbolLoop(bit, value, probe \div 2, next_idx, sum + bit[next_idx])
            ELSE SymbolLoop(bit, value, probe \div 2, idx, sum)
    ELSE <<idx, sum>>

get_symbol(m, value) ==
    LET r == SymbolLoop(m.bit, value, 128, 0, 0)
        s == IF r[1] < 255 THEN r[1] ELSE 255
    IN [symbol |-> s, low |-> r[2], range |-> m.counts[s]]

(***************************************************************************)
(* core/src/entropy.zig: RangeEncoder.                                     *)
(***************************************************************************)
\* init with low = 0xFF000000
RangeEncoderInitHighLow ==
    [range |-> <<W16 - 1, W16 - 1>>, low |-> <<255 * 256, 0>>, cache |-> 0,
     ff_count |-> 0, started |-> FALSE, buffer |-> <<>>]

RangeEncoderInit ==
    [range |-> <<W16 - 1, W16 - 1>>, low |-> <<0, 0>>, cache |-> 0,
     ff_count |-> 0, started |-> FALSE, buffer |-> <<>>]

Repeat(b, n) == [i \in 1..n |-> b]

\* write_byte_carry with the carry dropped: the cached byte is written as it is
write_byte_carry_no_carry(e, b) ==
    IF b < 255
    THEN [e EXCEPT !.buffer = IF e.started
                              THEN @ \o <<e.cache>> \o Repeat(255, e.ff_count)
                              ELSE @,
                   !.started = TRUE, !.cache = b, !.ff_count = 0]
    ELSE IF b > 255
    THEN [e EXCEPT !.buffer = IF e.started
                              THEN @ \o <<e.cache>> \o Repeat(255, e.ff_count)
                              ELSE @,
                   !.started = TRUE, !.cache = b % 256, !.ff_count = 0]
    ELSE [e EXCEPT !.ff_count = @ + 1]

\* write_byte_carry with the pending run written as 0xFF after a carry
write_byte_carry_run_kept(e, b) ==
    IF b < 255
    THEN [e EXCEPT !.buffer = IF e.started
                              THEN @ \o <<e.cache>> \o Repeat(255, e.ff_count)
                              ELSE @,
                   !.started = TRUE, !.cache = b, !.ff_count = 0]
    ELSE IF b > 255
    THEN [e EXCEPT !.buffer = IF e.started
                              THEN @ \o <<e.cache + 1>> \o Repeat(255, e.ff_count)
                              ELSE @,
                   !.started = TRUE, !.cache = b % 256, !.ff_count = 0]
    ELSE [e EXCEPT !.ff_count = @ + 1]

\* write_byte_carry with 0xFF cached like every byte up to it
write_byte_carry_ff_cached(e, b) ==
    IF b <= 255
    THEN [e EXCEPT !.buffer = IF e.started
                              THEN @ \o <<e.cache>> \o Repeat(255, e.ff_count)
                              ELSE @,
                   !.started = TRUE, !.cache = b, !.ff_count = 0]
    ELSE [e EXCEPT !.buffer = IF e.started
                              THEN @ \o <<e.cache + 1>> \o Repeat(0, e.ff_count)
                              ELSE @,
                   !.started = TRUE, !.cache = b % 256, !.ff_count = 0]

write_byte_carry(e, b) ==
    IF b < 255
    THEN [e EXCEPT !.buffer = IF e.started
                              THEN @ \o <<e.cache>> \o Repeat(255, e.ff_count)
                              ELSE @,
                   !.started = TRUE, !.cache = b, !.ff_count = 0]
    ELSE IF b > 255
    THEN [e EXCEPT !.buffer = IF e.started
                              THEN @ \o <<e.cache + 1>> \o Repeat(0, e.ff_count)
                              ELSE @,
                   !.started = TRUE, !.cache = b % 256, !.ff_count = 0]
    ELSE [e EXCEPT !.ff_count = @ + 1]

\* while (self.range < (1 << 24)) { write_byte_carry; low <<= 8; range <<= 8 }
RECURSIVE EncRenorm(_)
EncRenorm(e) ==
    IF WLess(e.range, WOf(Top))
    THEN EncRenorm([write_byte_carry(e, WShr24(e.low))
                      EXCEPT !.low = WShl8(e.low), !.range = WShl8(e.range)])
    ELSE e

\* encode_safe up to the renormalisation: low +%= p.low * r_div and
\* range = p.range * r_div
EncNarrow(e, m, symbol) ==
    LET p == get_range(m, symbol)
        r_div == WDiv(e.range, m.total)
    IN [e EXCEPT !.low = WAdd(@, WMul(p.low, r_div)),
                 !.range = WMul(p.range, r_div)]

encode_safe(e, m, symbol) ==
    [enc |-> EncRenorm(EncNarrow(e, m, symbol)), model |-> update(m, symbol)]

\* the values the renormalisation loop of encode_safe hands to
\* write_byte_carry, in order: self.low >> 24 of every iteration
RECURSIVE RenormPushes(_, _)
RenormPushes(low, range) ==
    IF WLess(range, WOf(Top))
    THEN <<WShr24(low)>> \o RenormPushes(WShl8(low), WShl8(range))
    ELSE <<>>

\* the values the n iterations of finish hand to write_byte_carry
RECURSIVE FinishPushes(_, _)
FinishPushes(low, n) ==
    IF n > 0 THEN <<WShr24(low)>> \o FinishPushes(WShl8(low), n - 1) ELSE <<>>

RECURSIVE FinishLoop(_, _)
FinishLoop(e, n) ==
    IF n > 0
    THEN FinishLoop([write_byte_carry(e, WShr24(e.low)) EXCEPT !.low = WShl8(e.low)],
                    n - 1)
    ELSE e

\* finish with four pushes
finishFour(e) == FinishLoop(e, 4)

finish(e) == FinishLoop(e, 5)

(***************************************************************************)
(* core/src/entropy.zig: RangeDecoder.                                     *)
(***************************************************************************)
\* the byte at the cursor, 0 once the input is exhausted
NextByte(data, cursor) == IF cursor < Len(data) THEN data[cursor + 1] ELSE 0

\* the cursor advanced whether or not a byte is left
AdvancePastEnd(data, cursor) == cursor + 1

Advance(data, cursor) == IF cursor < Len(data) THEN cursor + 1 ELSE cursor

\* (code << 8) | byte, in 32 bits
ShiftIn(code, byte) == LET c == WShl8(code) IN <<c[1], c[2] + byte>>

RECURSIVE DecInitLoop(_, _, _)
DecInitLoop(d, data, n) ==
    IF n > 0
    THEN DecInitLoop([d EXCEPT !.code = ShiftIn(@, NextByte(data, d.cursor)),
                               !.cursor = Advance(data, @)], data, n - 1)
    ELSE d

RangeDecoderInit(data) ==
    DecInitLoop([range |-> <<W16 - 1, W16 - 1>>, code |-> <<0, 0>>, cursor |-> 0],
                data, 4)

RECURSIVE DecRenorm(_, _)
DecRenorm(d, data) ==
    IF WLess(d.range, WOf(Top))
    THEN DecRenorm([d EXCEPT !.code = ShiftIn(@, NextByte(data, d.cursor)),
                             !.cursor = Advance(data, @),
                             !.range = WShl8(@)], data)
    ELSE d

\* decode up to the renormalisation: the symbol found, code -= info.low *
\* r_div and range = info.range * r_div
DecNarrow(d, m) ==
    LET r_div == WDiv(d.range, m.total)
        info == get_symbol(m, WDiv(d.code, r_div))
    IN [dec |-> [d EXCEPT !.code = WSub(@, WMul(info.low, r_div)),
                          !.range = WMul(info.range, r_div)],
        symbol |-> info.symbol]

decode(d, data, m) ==
    LET n == DecNarrow(d, m)
    IN [dec |-> DecRenorm(n.dec, data), model |-> update(m, n.symbol),
        symbol |-> n.symbol]

\* the number of iterations of the renormalisation loop of decode, each of
\* which asks the buffer for one byte
RECURSIVE RenormReads(_)
RenormReads(range) ==
    IF WLess(range, WOf(Top)) THEN 1 + RenormReads(WShl8(range)) ELSE 0

(***************************************************************************)
(* core/src/root.zig and the cgo bridge: whole-buffer compression.         *)
(***************************************************************************)
\* The CASE guards below hold always (total is never 0); they make the step's
\* result be computed before the next step is entered.
RECURSIVE EncodeAll(_, _, _, _)
EncodeAll(e, m, input, i) ==
    IF i <= Len(input)
    THEN LET r == encode_safe(e, m, input[i])
         IN CASE r.model.total > 0 -> EncodeAll(r.enc, r.model, input, i + 1)
    ELSE e

\* the bytes written to the output, <<>> when 0 is returned
gap_compress_data(input, output_cap) ==
    LET compressed == finish(EncodeAll(RangeEncoderInit, FrequencyModelInit, input, 1)).buffer
    IN IF Len(compressed) > output_cap THEN <<>> ELSE compressed

RECURSIVE DecodeAll(_, _, _, _, _)
DecodeAll(d, m, data, n, out) ==
    IF Len(out) < n
    THEN LET r == decode(d, data, m)
         IN CASE r.model.total > 0 ->
                 DecodeAll(r.dec, r.model, data, n, Append(out, r.symbol))
    ELSE out

gap_decompress_data(input, output_len) ==
    DecodeAll(RangeDecoderInit(input), FrequencyModelInit, input, output_len, <<>>)

\* a nil slice is the empty sequence
GapCompressData(input) ==
    IF Len(input) = 0 THEN <<>>
    ELSE gap_compress_data(input, Len(input) + 1024)

GapDecompressData(input, outputSize) ==
    IF Len(input) = 0 THEN <<>>
    ELSE gap_decompress_data(input, outputSize)

(***************************************************************************)
(* The range coder bridge run symbol by symbol (runSanityCheck):           *)
(* GapCompressData(input), then GapDecompressData(compressed, len(input)). *)
(***************************************************************************)
MaxLen == 4

ByteSamples == {0, 128, 255}

RECURSIVE SeqsUpTo(_, _)
SeqsUpTo(S, n) ==
    IF n = 0 THEN {<<>>}
    ELSE LET shorter == SeqsUpTo(S, n - 1)
         IN shorter \cup {Append(q, b) : q \in {x \in shorter : Len(x) = n - 1}, b \in S}

RcIdleDecoder == [range |-> <<0, 0>>, code |-> <<0, 0>>, cursor |-> 0]

\* the other components are not running
PermIdle ==
    /\ permPc = "idle" /\ permCos = 0 /\ permSin = 0 /\ permQuant = 1
    /\ permRow = <<>>

RcIdle ==
    /\ rcPc = "idle" /\ rcInput = <<>> /\ rcPos = 0
    /\ encModel = FrequencyModelInit /\ enc = RangeEncoderInit
    /\ rcData = <<>> /\ decModel = FrequencyModelInit
    /\ dec = RcIdleDecoder /\ rcOutput = <<>>
    /\ rcPushed = <<>> /\ rcReads = 0

PltIdle ==
    /\ pltPc = "idle" /\ pltS = 0 /\ pltCoeffs = <<>> /\ pltOut = <<>>

SplitIdle ==
    /\ splitPc = "idle" /\ splitWidth = 0 /\ splitHeight = 0 /\ splitCpu = 0
    /\ splitParsed = 0 /\ allCoeffs = <<>> /\ workers = <<>>
    /\ pix = <<>> /\ pixWrites = <<>>

CodecIdle ==
    /\ codecPc = "idle" /\ image = <<>> /\ encS = 0 /\ encT = 0
    /\ file = <<>> /\ planeEnc = <<>> /\ patchPool = <<>> /\ results = <<>>
    /\ encI = 0 /\ encErr = "" /\ tampered = {} /\ decHeader = <<>>
    /\ allPlaneData = <<>> /\ planeDec = <<>> /\ decErr = ""

FmIdle ==
    /\ fmModel = <<>> /\ fmPrev = <<>> /\ fmLast = <<>> /\ fmSteps = 0

QuantIdle ==
    /\ qPc = "idle" /\ qWidth = 0 /\ qHeight = 0 /\ qX = 0 /\ qY = 0
    /\ qPatches = <<>> /\ qStreams = <<>> /\ qParsed = <<>>

PostIdle ==
    /\ postPc = "idle" /\ postWidth = 0 /\ postHeight = 0 /\ postCpu = 0
    /\ postWorkers = <<>> /\ postOut = "" /\ postReads = {}
    /\ postWrites = {} /\ postLog = <<>>

AngIdle ==
    /\ angPc = "idle" /\ angAngle = <<>> /\ angEncRow = 0 /\ angByte = 0
    /\ angDecAngle = <<>> /\ angDecRow = 0

DbIdle ==
    /\ dbPc = "idle" /\ dbWidth = 0 /\ dbHeight = 0 /\ dbBefore = <<>>
    /\ dbImg = <<>>

GeomIdle ==
    /\ gmPc = "idle" /\ gmHeader = <<>> /\ gmIdx = 0 /\ gmEnc = <<>>
    /\ gmX = 0 /\ gmY = 0 /\ gmStreams = <<>> /\ gmDec = <<>>

RdIdle ==
    /\ rdPc = "idle" /\ rdInput = <<>> /\ rdN = 0 /\ rdDec = <<>>
    /\ rdModel = <<>> /\ rdOut = <<>> /\ rdLast = <<>>

RnIdle ==
    /\ rnPc = "idle" /\ rnInput = <<>> /\ rnPos = 0 /\ rnEnc = <<>>
    /\ rnData = <<>> /\ rnDec = <<>> /\ rnCount = 0

UpIdle ==
    /\ upPc = "idle" /\ upDstH = 0 /\ upCpu = 0 /\ upI = 0 /\ upWorkers = <<>>

SpIdle ==
    /\ spPc = "idle" /\ spPlane = <<>> /\ spStreams = <<>> /\ spX = 0
    /\ spY = 0 /\ spPtr = <<>> /\ spCoords = <<>> /\ spAccess = {}
    /\ spSlots = {} /\ spPix = <<>>

LateIdle == AngIdle /\ DbIdle /\ GeomIdle /\ RdIdle /\ RnIdle /\ UpIdle /\
    SpIdle

\* the components other than this one are not running
AngOthersIdle ==
    /\ RcIdle /\ PermIdle /\ PltIdle /\ SplitIdle
    /\ CodecIdle /\ FmIdle /\ QuantIdle /\ PostIdle
    /\ DbIdle /\ GeomIdle /\ RdIdle /\ RnIdle
    /\ UpIdle /\ SpIdle

AngFrame ==
    UNCHANGED <<rcVars, permVars, pltVars, splitVars, codecVars, fmVars,
                quantVars, postVars, dbVars, geomVars, rdVars, rnVars,
                upVars, spVars>>

\* the components other than this one are not running
DbOthersIdle ==
    /\ RcIdle /\ PermIdle /\ PltIdle /\ SplitIdle
    /\ CodecIdle /\ FmIdle /\ QuantIdle /\ PostIdle
    /\ AngIdle /\ GeomIdle /\ RdIdle /\ RnIdle
    /\ UpIdle /\ SpIdle

DbFrame ==
    UNCHANGED <<rcVars, permVars, pltVars, splitVars, codecVars, fmVars,
                quantVars, postVars, angVars, geomVars, rdVars, rnVars,
                upVars, spVars>>

\* the components other than this one are not running
GeomOthersIdle ==
    /\ RcIdle /\ PermIdle /\ PltIdle /\ SplitIdle
    /\ CodecIdle /\ FmIdle /\ QuantIdle /\ PostIdle
    /\ AngIdle /\ DbIdle /\ RdIdle /\ RnIdle
    /\ UpIdle /\ SpIdle

GeomFrame ==
    UNCHANGED <<rcVars, permVars, pltVars, splitVars, codecVars, fmVars,
                quantVars, postVars, angVars, dbVars, rdVars, rnVars,
                upVars, spVars>>

\* the components other than this one are not running
RdOthersIdle ==
    /\ RcIdle /\ PermIdle /\ PltIdle /\ SplitIdle
    /\ CodecIdle /\ FmIdle /\ QuantIdle /\ PostIdle
    /\ AngIdle /\ DbIdle /\ GeomIdle /\ RnIdle
    /\ UpIdle /\ SpIdle

RdFrame ==
    UNCHANGED <<rcVars, permVars, pltVars, splitVars, codecVars, fmVars,
                quantVars, postVars, angVars, dbVars, geomVars, rnVars,
                upVars, spVars>>

\* the components other than this one are not running
RnOthersIdle ==
    /\ RcIdle /\ PermIdle /\ PltIdle /\ SplitIdle
    /\ CodecIdle /\ FmIdle /\ QuantIdle /\ PostIdle
    /\ AngIdle /\ DbIdle /\ GeomIdle /\ RdIdle
    /\ UpIdle /\ SpIdle

RnFrame ==
    UNCHANGED <<rcVars, permVars, pltVars, splitVars, codecVars, fmVars,
                quantVars, postVars, angVars, dbVars, geomVars, rdVars,
                upVars, spVars>>

\* the components other than this one are not running
UpOthersIdle ==
    /\ RcIdle /\ PermIdle /\ PltIdle /\ SplitIdle
    /\ CodecIdle /\ FmIdle /\ QuantIdle /\ PostIdle
    /\ AngIdle /\ DbIdle /\ GeomIdle /\ RdIdle
    /\ RnIdle /\ SpIdle

UpFrame ==
    UNCHANGED <<rcVars, permVars, pltVars, splitVars, codecVars, fmVars,
                quantVars, postVars, angVars, dbVars, geomVars, rdVars,
                rnVars, spVars>>

\* the components other than this one are not running
SpOthersIdle ==
    /\ RcIdle /\ PermIdle /\ PltIdle /\ SplitIdle
    /\ CodecIdle /\ FmIdle /\ QuantIdle /\ PostIdle
    /\ AngIdle /\ DbIdle /\ GeomIdle /\ RdIdle
    /\ RnIdle /\ UpIdle

SpFrame ==
    UNCHANGED <<rcVars, permVars, pltVars, splitVars, codecVars, fmVars,
                quantVars, postVars, angVars, dbVars, geomVars, rdVars,
                rnVars, upVars>>

RcFrame ==
    UNCHANGED <<permVars, pltVars, splitVars, codecVars, fmVars, quantVars,
                postVars, lateVars>>

PermFrame ==
    UNCHANGED <<rcVars, pltVars, splitVars, codecVars, fmVars, quantVars,
                postVars, lateVars>>

PltFrame ==
    UNCHANGED <<rcVars, permVars, splitVars, codecVars, fmVars, quantVars,
                postVars, lateVars>>

SplitFrame ==
    UNCHANGED <<rcVars, permVars, pltVars, codecVars, fmVars, quantVars,
                postVars, lateVars>>

CodecFrame ==
    UNCHANGED <<rcVars, permVars, pltVars, splitVars, fmVars, quantVars,
                postVars, lateVars>>

FmFrame ==
    UNCHANGED <<rcVars, permVars, pltVars, splitVars, codecVars, quantVars,
                postVars, lateVars>>

QuantFrame ==
    UNCHANGED <<rcVars, permVars, pltVars, splitVars, codecVars, fmVars,
                postVars, lateVars>>

PostFrame ==
    UNCHANGED <<rcVars, permVars, pltVars, splitVars, codecVars, fmVars,
                quantVars, lateVars>>

RcInit ==
    /\ rcInput \in SeqsUpTo(ByteSamples, MaxLen)
    /\ rcPc = "start"
    /\ rcPos = 0
    /\ encModel = FrequencyModelInit
    /\ enc = RangeEncoderInit
    /\ rcData = <<>>
    /\ decModel = FrequencyModelInit
    /\ dec = RcIdleDecoder
    /\ rcOutput = <<>>
    /\ rcPushed = <<>>
    /\ rcReads = 0
    /\ PermIdle /\ PltIdle /\ SplitIdle /\ CodecIdle
    /\ FmIdle /\ QuantIdle /\ PostIdle /\ LateIdle

\* GapCompressData: if len(input) == 0 { return nil }
RcCompressStart ==
    /\ rcPc = "start"
    /\ rcPc' = IF Len(rcInput) = 0 THEN "nil" ELSE "encode"
    /\ UNCHANGED <<rcInput, rcPos, encModel, enc, rcData, decModel, dec, rcOutput,
                   rcPushed, rcReads>>
    /\ RcFrame

\* gap_compress_data: for (input) |byte| encoder.encode_safe(&model, byte)
RcEncodeStep ==
    /\ rcPc = "encode"
    /\ rcPos < Len(rcInput)
    /\ LET r == encode_safe(enc, encModel, rcInput[rcPos + 1])
       IN /\ enc' = r.enc
          /\ encModel' = r.model
    /\ LET e1 == EncNarrow(enc, encModel, rcInput[rcPos + 1])
       IN rcPushed' = rcPushed \o RenormPushes(e1.low, e1.range)
    /\ rcPos' = rcPos + 1
    /\ UNCHANGED <<rcPc, rcInput, rcData, decModel, dec, rcOutput, rcReads>>
    /\ RcFrame

\* an append fails to allocate: catch return 0, and the bridge returns nil
RcAllocFail ==
    /\ rcPc = "encode"
    /\ rcPc' = "nil"
    /\ UNCHANGED <<rcInput, rcPos, encModel, enc, rcData, decModel, dec, rcOutput,
                   rcPushed, rcReads>>
    /\ RcFrame

\* encoder.finish(), the capacity check and the copy to the output
RcFinish ==
    /\ rcPc = "encode"
    /\ rcPos = Len(rcInput)
    /\ enc' = finish(enc)
    /\ IF Len(enc'.buffer) > Len(rcInput) + 1024
       THEN rcPc' = "nil" /\ rcData' = rcData
       ELSE rcPc' = "compressed" /\ rcData' = enc'.buffer
    /\ rcPushed' = rcPushed \o FinishPushes(enc.low, 5)
    /\ UNCHANGED <<rcInput, rcPos, encModel, decModel, dec, rcOutput, rcReads>>
    /\ RcFrame

\* GapDecompressData / gap_decompress_data: RangeDecoder.init, FrequencyModel.init
RcDecodeStart ==
    /\ rcPc = "compressed"
    /\ IF Len(rcData) = 0
       THEN rcPc' = "nil" /\ UNCHANGED <<dec, decModel, rcReads>>
       ELSE /\ rcPc' = IF Len(rcInput) = 0 THEN "done" ELSE "decode"
            /\ dec' = RangeDecoderInit(rcData)
            /\ decModel' = FrequencyModelInit
            /\ rcReads' = 4
    /\ UNCHANGED <<rcInput, rcPos, encModel, enc, rcData, rcOutput, rcPushed>>
    /\ RcFrame

\* for (0..output_len) |i| output[i] = decoder.decode(&model)
RcDecodeStep ==
    /\ rcPc = "decode"
    /\ Len(rcOutput) < Len(rcInput)
    /\ LET r == decode(dec, rcData, decModel)
       IN /\ dec' = r.dec
          /\ decModel' = r.model
          /\ rcOutput' = Append(rcOutput, r.symbol)
    /\ rcReads' = rcReads + RenormReads(DecNarrow(dec, decModel).dec.range)
    /\ rcPc' = IF Len(rcOutput') = Len(rcInput) THEN "done" ELSE "decode"
    /\ UNCHANGED <<rcInput, rcPos, encModel, enc, rcData, rcPushed>>
    /\ RcFrame

RcNext ==
    \/ RcCompressStart
    \/ RcEncodeStep
    \/ RcAllocFail
    \/ RcFinish
    \/ RcDecodeStart
    \/ RcDecodeStep

SpecRC == RcInit /\ [][RcNext]_vars

Spec == SpecRC

\* C1: range coder round-trip: once N >= 1 bytes were range-encoded with a
\* fresh model (every byte, then finish) and N symbols were range-decoded
\* from the produced bytes with a fresh model, the decoded bytes are the input.
RangeCoderRoundTrip ==
    rcPc = "done" => rcOutput = rcInput

\* a round trip through a carry and a pending 0xFF run has completed
RangeCoderRoundTripWitness ==
    /\ rcPc = "done"
    /\ Len(rcInput) = MaxLen
    /\ rcInput[1] = 128 /\ rcInput[2] = 255
    /\ rcOutput = rcInput
    /\ gap_decompress_data(GapCompressData(rcInput), Len(rcInput)) = rcInput

(***************************************************************************)
(* core/src/gradient.zig: one row of angle_map_table.  The row's cos_a and *)
(* sin_a are float32 values the model does not compute; a row is built for *)
(* every direction (permCos, permSin) of a grid, with the projections      *)
(* rounded down to multiples of 1 / permQuant, which covers equal          *)
(* projections (ties) along rows, columns and diagonals.                   *)
(***************************************************************************)
PatchSize == 8

PixelCount == PatchSize * PatchSize

MaxDir == 4

MaxQuant == 2

\* Entry.lessThan
lessThan(a, b) ==
    IF a.proj # b.proj THEN a.proj < b.proj ELSE a.index < b.index

\* the entry of pixel idx with the index field taken from x alone
EntryOfColumn(idx, cos_a, sin_a, quant) ==
    LET x == idx % PatchSize
        y == idx \div PatchSize
    IN [proj |-> (x * cos_a + y * sin_a) \div quant, index |-> x]

\* entries[idx] = Entry{ .proj = x * cos_a + y * sin_a, .index = idx }
Entry(idx, cos_a, sin_a, quant) ==
    LET x == idx % PatchSize
        y == idx \div PatchSize
    IN [proj |-> (x * cos_a + y * sin_a) \div quant, index |-> idx]

\* the place a stable sort by lessThan gives entries[i]: behind the entries
\* that are less than it and the earlier entries it is not less than
SortedPlace(entries, i) ==
    1 + Cardinality({j \in 1..Len(entries) :
            \/ lessThan(entries[j], entries[i])
            \/ j < i /\ ~lessThan(entries[i], entries[j])})

\* std.sort.block(Entry, &entries, {}, Entry.lessThan): a stable sort, the
\* entries in the order of lessThan, equal entries keeping their order
SortEntries(entries) ==
    LET place == [i \in 1..Len(entries) |-> SortedPlace(entries, i)]
    IN [n \in 1..Len(entries) |->
           entries[CHOOSE i \in 1..Len(entries) : place[i] = n]]

\* for (entries, 0..) |entry, j| table[i][j] = entry.index
TableRow(cos_a, sin_a, quant) ==
    LET entries == [n \in 1..PixelCount |-> Entry(n - 1, cos_a, sin_a, quant)]
        sorted == SortEntries(entries)
    IN [j \in 1..PixelCount |-> sorted[j].index]

PermInit ==
    /\ permPc = "start"
    /\ permCos \in -MaxDir..MaxDir
    /\ permSin \in -MaxDir..MaxDir
    /\ permQuant \in 1..MaxQuant
    /\ permRow = <<>>
    /\ RcIdle /\ PltIdle /\ SplitIdle /\ CodecIdle
    /\ FmIdle /\ QuantIdle /\ PostIdle /\ LateIdle

PermBuildRow ==
    /\ permPc = "start"
    /\ permRow' = TableRow(permCos, permSin, permQuant)
    /\ permPc' = "built"
    /\ UNCHANGED <<permCos, permSin, permQuant>>
    /\ PermFrame

PermNext == PermBuildRow

SpecPerm == PermInit /\ [][PermNext]_vars

\* the projection the row's sort compares for source index idx
PermProj(idx) ==
    ((idx % PatchSize) * permCos + (idx \div PatchSize) * permSin) \div permQuant

\* C9: permutation bijection: the 64 entries of a built table row are a
\* permutation of 0..63 (each source index occurs exactly once), for every
\* projection, and they are in ascending order of projection, entries of equal
\* projection in ascending order of their original index.
PermutationBijection ==
    permPc = "built" =>
        /\ Len(permRow) = PixelCount
        /\ \A idx \in 0..(PixelCount - 1) :
              Cardinality({j \in 1..PixelCount : permRow[j] = idx}) = 1
        /\ \A j \in 1..(PixelCount - 1) :
              \/ PermProj(permRow[j]) < PermProj(permRow[j + 1])
              \/ /\ PermProj(permRow[j]) = PermProj(permRow[j + 1])
                 /\ permRow[j] < permRow[j + 1]

\* a row was built whose projections tie (a vertical direction) and whose
\* order is not the identity
PermutationBijectionWitness ==
    /\ permPc = "built"
    /\ permCos = 0 /\ permSin = -1
    /\ permRow[1] = 56 /\ permRow[2] = 57 /\ permRow[PixelCount] = 7
    /\ PermProj(56) = PermProj(57)

(***************************************************************************)
(* core/src/pltm.zig: the polylog filters.  A coefficient is a pair        *)
(* <<re, im>> of integers in units of the noise floor's factor 0.0001, s   *)
(* is in hundredths.  The rows of the weight tables the model computes are *)
(* those of an integer exponent (s_idx a multiple of 10); products and     *)
(* quotients are computed to the precision of the unit.                    *)
(***************************************************************************)
Bins == 0..(PixelCount - 1)

Abs(a) == IF a < 0 THEN -a ELSE a

Max(a, b) == IF a > b THEN a ELSE b

Min(a, b) == IF a < b THEN a ELSE b

\* a / b rounded towards zero
Quot(a, b) == IF a < 0 THEN -((-a) \div b) ELSE a \div b

\* the index with the lower clamp replaced by the absolute value
SIdxAbs(s) == Min(Abs(s) \div 10, 63)

\* s_idx = @intFromFloat(@min(@max(s * 10.0, 0), 63))
SIdx(s) == Min(Max(s, 0) \div 10, 63)

RECURSIVE Pow(_, _)
Pow(k, e) == IF e = 0 THEN 1 ELSE k * Pow(k, e - 1)

\* weight_table[s_idx][k] = pow(k, -s) applied to a component
Weighted(v, s_idx, k) == Quot(v, Pow(k, s_idx \div 10))

\* inv_weight_table[s_idx][k] = pow(k, s) applied to a component
InvWeighted(v, s_idx, k) == v * Pow(k, s_idx \div 10)

\* apply_polylog_filter
apply_polylog_filter(coeffs, s) ==
    LET s_idx == SIdx(s)
    IN [k \in Bins |->
           IF k = 0 THEN coeffs[k]
           ELSE <<Weighted(coeffs[k][1], s_idx, k),
                  Weighted(coeffs[k][2], s_idx, k)>>]

\* 0.0001 in units
NoiseUnit == 1

\* limit = 4.0 in units
Limit == 40000

\* the largest value whose square, doubled, is an Int of the checker
HalfRange == 32767

\* the largest value whose square is an Int of the checker
RootRange == 46340

\* mag_sq > floor_sq, floor_sq = (0.0001 * sqrt(k))^2
AboveFloor(c, k) ==
    \/ Abs(c[1]) > 8 * NoiseUnit
    \/ Abs(c[2]) > 8 * NoiseUnit
    \/ c[1] * c[1] + c[2] * c[2] > k * NoiseUnit * NoiseUnit

\* res_mag_sq > lim_sq
AboveLimit(c) ==
    \/ Abs(c[1]) > Limit
    \/ Abs(c[2]) > Limit
    \/ c[1] * c[1] > Limit * Limit - c[2] * c[2]

\* the integer square root of n, between lo and hi
RECURSIVE SqrtLoop(_, _, _)
SqrtLoop(n, lo, hi) ==
    IF lo >= hi THEN lo
    ELSE LET mid == (lo + hi + 1) \div 2
         IN IF mid * mid <= n THEN SqrtLoop(n, mid, hi)
            ELSE SqrtLoop(n, lo, mid - 1)

\* the power of two that brings v into the range whose squares are computed
RECURSIVE ScaleFor(_, _)
ScaleFor(v, d) == IF v \div d <= HalfRange THEN d ELSE ScaleFor(v, 2 * d)

\* r = limit / @sqrt(res_mag_sq); coeffs[k].re *= r; coeffs[k].im *= r
Limited(c) ==
    LET d == ScaleFor(Max(Abs(c[1]), Abs(c[2])), 1)
        a == Quot(c[1], d)
        b == Quot(c[2], d)
        root == SqrtLoop(a * a + b * b, 0, RootRange)
    IN <<Quot(a * Limit, root), Quot(b * Limit, root)>>

\* apply_inverse_polylog_filter
apply_inverse_polylog_filter(coeffs, s) ==
    LET s_idx == SIdx(s)
    IN [k \in Bins |->
           IF k = 0 THEN coeffs[k]
           ELSE IF AboveFloor(coeffs[k], k)
           THEN LET res == <<InvWeighted(coeffs[k][1], s_idx, k),
                             InvWeighted(coeffs[k][2], s_idx, k)>>
                IN IF AboveLimit(res) THEN Limited(res) ELSE res
           ELSE <<0, 0>>]

\* coefficients: below and on the noise floor, above it, above the limit
CoeffSamples ==
    {<<0, 0>>, <<1, 0>>, <<2, 0>>, <<0, -4>>, <<10000, 0>>,
     <<-10000, 20000>>, <<30000, 40000>>, <<0, -40001>>}

\* s = -1.0, 0.0, 0.05 and 1.0
SSamples == {-100, 0, 5, 100}

\* the first bin of the upper half of the spectrum
UpperBin == 32

PltInit ==
    /\ pltPc = "start"
    /\ pltS \in SSamples
    /\ \E dc \in CoeffSamples, low \in CoeffSamples, high \in CoeffSamples :
          pltCoeffs = [k \in Bins |->
                          IF k = 0 THEN dc ELSE IF k < UpperBin THEN low ELSE high]
    /\ pltOut = <<>>
    /\ RcIdle /\ PermIdle /\ SplitIdle /\ CodecIdle
    /\ FmIdle /\ QuantIdle /\ PostIdle /\ LateIdle

PltForward ==
    /\ pltPc = "start"
    /\ pltOut' = apply_polylog_filter(pltCoeffs, pltS)
    /\ pltPc' = "forward"
    /\ UNCHANGED <<pltS, pltCoeffs>>
    /\ PltFrame

PltInverse ==
    /\ pltPc = "start"
    /\ pltOut' = apply_inverse_polylog_filter(pltCoeffs, pltS)
    /\ pltPc' = "inverse"
    /\ UNCHANGED <<pltS, pltCoeffs>>
    /\ PltFrame

PltNext == PltForward \/ PltInverse

SpecPlt == PltInit /\ [][PltNext]_vars

\* the squared magnitude of the coefficient of bin k is above the squared
\* noise floor of the bin and not above the squared limit 4.0
PltBetweenFloorAndLimit(k) ==
    LET re == pltCoeffs[k][1]
        im == pltCoeffs[k][2]
    IN /\ Abs(re) <= 40000 /\ Abs(im) <= 40000
       /\ re * re <= 1600000000 - im * im
       /\ (Abs(re) > 8 \/ Abs(im) > 8 \/ re * re + im * im > k)

MaxCpu == 3

SplitWidths == {8, 13, 24}

SplitHeights == {5, 16}

\* the size rounded down to a multiple of 8
PaddedDown(n) == (n \div 8) * 8

\* paddedW := (width + 7) / 8 * 8
Padded(n) == ((n + 7) \div 8) * 8

\* numPatches := (paddedW / 8) * (paddedH / 8)
NumPatches(width, height) == (Padded(width) \div 8) * (Padded(height) \div 8)

\* coords[pIdx] as the parse loop sets them, patches in raster order
CoordX(p, width) == (p % (Padded(width) \div 8)) * 8

CoordY(p, width) == (p \div (Padded(width) \div 8)) * 8

\* fillPlane(img, initVal)
InitPixel == <<-1, 0, 0>>

\* numWorkers := runtime.NumCPU(); if numWorkers > pIdx { numWorkers = pIdx }
NumWorkers(cpu, n) == IF cpu > n THEN n ELSE cpu

\* the chunk size rounded down
ChunkSizeFloor(n, numWorkers) == n \div numWorkers

\* chunkSize := (pIdx + numWorkers - 1) / numWorkers
ChunkSize(n, numWorkers) == (n + numWorkers - 1) \div numWorkers

\* start := w * chunkSize
ChunkStart(w, n, numWorkers) == w * ChunkSize(n, numWorkers)

\* end := start + chunkSize; if end > pIdx { end = pIdx }
ChunkEnd(w, n, numWorkers) ==
    LET end == ChunkStart(w, n, numWorkers) + ChunkSize(n, numWorkers)
    IN IF end > n THEN n ELSE end

SplitInit ==
    /\ splitPc = "parsed"
    /\ splitWidth \in SplitWidths
    /\ splitHeight \in SplitHeights
    /\ splitCpu \in 1..MaxCpu
    /\ splitParsed \in 0..NumPatches(splitWidth, splitHeight)
    /\ allCoeffs = [p \in 0..(NumPatches(splitWidth, splitHeight) - 1) |->
                       [patch |-> p, filtered |-> 0]]
    /\ workers = <<>>
    /\ pix = [o \in 0..(splitWidth * splitHeight - 1) |-> InitPixel]
    /\ pixWrites = [o \in 0..(splitWidth * splitHeight - 1) |-> 0]
    /\ RcIdle /\ PermIdle /\ PltIdle /\ CodecIdle
    /\ FmIdle /\ QuantIdle /\ PostIdle /\ LateIdle

\* if pIdx > 0 { ... } is skipped
SplitNoPatches ==
    /\ splitPc = "parsed"
    /\ splitParsed = 0
    /\ splitPc' = "done"
    /\ UNCHANGED <<splitWidth, splitHeight, splitCpu, splitParsed, allCoeffs,
                   workers, pix, pixWrites>>
    /\ SplitFrame

\* the loop over w: go func(s, e int) for every w with start < end
SplitSpawn ==
    /\ splitPc = "parsed"
    /\ splitParsed > 0
    /\ LET numWorkers == NumWorkers(splitCpu, splitParsed)
           spawned == {w \in 0..(numWorkers - 1) :
                          ChunkStart(w, splitParsed, numWorkers)
                              < ChunkEnd(w, splitParsed, numWorkers)}
       IN workers' = [w \in spawned |->
                         [s |-> ChunkStart(w, splitParsed, numWorkers),
                          e |-> ChunkEnd(w, splitParsed, numWorkers),
                          pc |-> "decompress",
                          i |-> 0,
                          pixelBuf |-> <<>>]]
    /\ splitPc' = "running"
    /\ UNCHANGED <<splitWidth, splitHeight, splitCpu, splitParsed, allCoeffs,
                   pix, pixWrites>>
    /\ SplitFrame

\* gap_decompress_patches, one iteration: gap_decompress_patch runs the
\* inverse filter in place over the slice of patch s + i and writes the 64
\* pixels to pixelBuf[i*64 : (i+1)*64]
SplitDecompressPatch(w) ==
    /\ splitPc = "running"
    /\ workers[w].pc = "decompress"
    /\ LET me == workers[w]
           p == me.s + me.i
           slice == [allCoeffs[p] EXCEPT !.filtered = @ + 1]
           last == me.i + 1 = me.e - me.s
       IN /\ allCoeffs' = [allCoeffs EXCEPT ![p] = slice]
          /\ workers' = [workers EXCEPT
                 ![w] = [me EXCEPT !.pixelBuf = Append(@, slice),
                                   !.i = IF last THEN 0 ELSE @ + 1,
                                   !.pc = IF last THEN "write" ELSE @]]
    /\ UNCHANGED <<splitPc, splitWidth, splitHeight, splitCpu, splitParsed,
                   pix, pixWrites>>
    /\ SplitFrame

\* the pixel (origX, origY) at offset o of img.Pix is one of the 8x8 pixels
\* (x + px, y + py) of patch p, which the guard origX < width && origY <
\* height admits
InPatch(o, p, width) ==
    /\ (o % width) - CoordX(p, width) \in 0..7
    /\ (o \div width) - CoordY(p, width) \in 0..7

\* py*8 + px of the pixel at offset o in patch p
PatchOffset(o, p, width) ==
    ((o \div width) - CoordY(p, width)) * 8 + ((o % width) - CoordX(p, width))

\* the write loop, one iteration of i: the 8x8 pixels of patch s + i that lie
\* in the plane are stored to img.Pix
SplitWritePatch(w) ==
    /\ splitPc = "running"
    /\ workers[w].pc = "write"
    /\ LET me == workers[w]
           p == me.s + me.i
           patch == me.pixelBuf[me.i + 1]
           last == me.i + 1 = me.e - me.s
       IN /\ pix' = [o \in DOMAIN pix |->
                        IF InPatch(o, p, splitWidth)
                        THEN <<patch.patch, patch.filtered,
                               PatchOffset(o, p, splitWidth)>>
                        ELSE pix[o]]
          /\ pixWrites' = [o \in DOMAIN pixWrites |->
                              IF InPatch(o, p, splitWidth) THEN pixWrites[o] + 1
                              ELSE pixWrites[o]]
          /\ workers' = [workers EXCEPT
                 ![w] = [me EXCEPT !.i = IF last THEN @ ELSE @ + 1,
                                   !.pc = IF last THEN "done" ELSE @]]
    /\ UNCHANGED <<splitPc, splitWidth, splitHeight, splitCpu, splitParsed,
                   allCoeffs>>
    /\ SplitFrame

\* wg.Wait(); return img, nil
SplitWait ==
    /\ splitPc = "running"
    /\ \A w \in DOMAIN workers : workers[w].pc = "done"
    /\ splitPc' = "done"
    /\ UNCHANGED <<splitWidth, splitHeight, splitCpu, splitParsed, allCoeffs,
                   workers, pix, pixWrites>>
    /\ SplitFrame

SplitNext ==
    \/ SplitNoPatches
    \/ SplitSpawn
    \/ \E w \in DOMAIN workers : SplitDecompressPatch(w)
    \/ \E w \in DOMAIN workers : SplitWritePatch(w)
    \/ SplitWait

SpecSplit == SplitInit /\ [][SplitNext]_vars

\* the patch whose rectangle holds the pixel at offset o
SplitPatchOf(o) ==
    ((o \div splitWidth) \div 8) * ((splitWidth + 7) \div 8)
        + ((o % splitWidth) \div 8)

\* C7: parallel patch reconstruction is partition-independent: when
\* gapDecodePlaneSplit returns, for every number of parsed patches and every
\* worker count, each parsed patch has been decompressed exactly once (its
\* coefficient slice filtered once) and no other patch at all, each pixel of
\* a parsed patch's rectangle has been stored exactly once with that patch's
\* pixel, and every other pixel is untouched: the plane is the one a single
\* worker produces, whatever the partitioning and the interleaving.
PartitionIndependent ==
    splitPc = "done" =>
        /\ \A p \in DOMAIN allCoeffs :
              allCoeffs[p] =
                  [patch |-> p, filtered |-> IF p < splitParsed THEN 1 ELSE 0]
        /\ \A o \in DOMAIN pix :
              IF SplitPatchOf(o) < splitParsed
              THEN /\ pixWrites[o] = 1
                   /\ pix[o] = <<SplitPatchOf(o), 1,
                                 ((o \div splitWidth) % 8) * 8
                                     + ((o % splitWidth) % 8)>>
              ELSE /\ pixWrites[o] = 0
                   /\ pix[o] = <<-1, 0, 0>>

\* two of three workers, the third having an empty range, have reconstructed
\* the four patches of a plane that crops the patches of its right column
PartitionIndependentWitness ==
    /\ splitPc = "done"
    /\ splitWidth = 13 /\ splitHeight = 16
    /\ splitCpu = 3
    /\ splitParsed = 4
    /\ Cardinality(DOMAIN workers) = 2
    /\ pix[207] = <<3, 1, 60>>

(***************************************************************************)
(* engine/decoder.go: the container.  Bytes are 0..255, a uint32 is a      *)
(* natural number below 2^31, a float32 is written as its four bytes.      *)
(* An image is a record [width, height, tiles]: its pixels have one colour *)
(* <<r, g, b>> per tile of 16 x 16 pixels, so that every 8 x 8 patch of    *)
(* the luma plane and of the halved chroma planes holds a single value and *)
(* the gradient and the DFT of a patch are exact: angle 0, bin 0 = 64 x,   *)
(* every other bin 0.                                                      *)
(***************************************************************************)
\* binary.Write(..., binary.LittleEndian, uint32)
LE32(n) ==
    <<n % 256, (n \div 256) % 256, (n \div 65536) % 256, (n \div 16777216) % 256>>

\* binary.Read(file, binary.LittleEndian, &uint32) of the bytes at 1-based at
Uint32At(bytes, at) ==
    bytes[at] + 256 * bytes[at + 1] + 65536 * bytes[at + 2]
        + 16777216 * bytes[at + 3]

\* the quotient num / den scaled by a power of two into [1, 2): the scaled
\* numerator, the scaled denominator and the exponent
RECURSIVE F32Normal(_, _, _)
F32Normal(num, den, e) ==
    IF num >= 2 * den THEN F32Normal(num, 2 * den, e + 1)
    ELSE IF num < den THEN F32Normal(2 * num, den, e - 1)
    ELSE <<num, den, e>>

\* the next bits of the significand by long division
RECURSIVE F32Mantissa(_, _, _, _)
F32Mantissa(q, r, den, steps) ==
    IF steps = 0 THEN <<q, r>>
    ELSE IF 2 * r >= den THEN F32Mantissa(2 * q + 1, 2 * r - den, den, steps - 1)
    ELSE F32Mantissa(2 * q, 2 * r, den, steps - 1)

\* the four little-endian bytes of the float32 nearest to num / den
\* (num >= 0, den > 0), negated if neg
F32Bytes(num, den, neg) ==
    IF num = 0 THEN <<0, 0, 0, IF neg THEN 128 ELSE 0>>
    ELSE LET n == F32Normal(num, den, 0)
             m == F32Mantissa(1, n[1] - n[2], n[2], 23)
             up == 2 * m[2] > n[2] \/ (2 * m[2] = n[2] /\ m[1] % 2 = 1)
             q == IF up THEN m[1] + 1 ELSE m[1]
             sig == IF q = 16777216 THEN 8388608 ELSE q
             biased == (IF q = 16777216 THEN n[3] + 1 ELSE n[3]) + 127
         IN <<sig % 256, (sig \div 256) % 256,
              (biased % 2) * 128 + ((sig \div 65536) % 128),
              (IF neg THEN 128 ELSE 0) + (biased \div 2)>>

\* color.RGBToYCbCr of the Go library, on <<r, g, b>>
RGBToYCbCr(c) ==
    LET yy == (19595 * c[1] + 38470 * c[2] + 7471 * c[3] + 32768) \div 65536
        cb == -11056 * c[1] - 21712 * c[2] + 32768 * c[3] + 8421376
        cr == 32768 * c[1] - 27440 * c[2] - 5328 * c[3] + 8421376
        clamp(v) == IF v < 0 THEN 0 ELSE IF v >= 16777216 THEN 255 ELSE v \div 65536
    IN <<yy, clamp(cb), clamp(cr)>>

TileSize == 2 * PatchSize

\* yPlane, cbPlane, crPlane (ch = 0, 1, 2) at (x, y)
FullPlaneAt(img, ch, x, y) ==
    RGBToYCbCr(img.tiles[<<x \div TileSize, y \div TileSize>>])[ch + 1]

\* downsamplePlane: dst at (x, y)
downsamplePlane(img, ch, x, y) ==
    LET x2 == IF 2 * x + 1 >= img.width THEN img.width - 1 ELSE 2 * x + 1
        y2 == IF 2 * y + 1 >= img.height THEN img.height - 1 ELSE 2 * y + 1
        sum == FullPlaneAt(img, ch, 2 * x, 2 * y) + FullPlaneAt(img, ch, x2, 2 * y)
                 + FullPlaneAt(img, ch, 2 * x, y2) + FullPlaneAt(img, ch, x2, y2)
    IN sum \div 4

\* planes := []*image.Gray{yPlane, cbSmall, crSmall}: planes[idx] at (x, y)
PlaneAt(img, idx, x, y) ==
    IF idx = 0 THEN FullPlaneAt(img, 0, x, y) ELSE downsamplePlane(img, idx, x, y)

\* pBounds.Dx() of planes[idx]
PlaneWidth(img, idx) == IF idx = 0 THEN img.width ELSE img.width \div 2

\* pBounds.Dy() of planes[idx]
PlaneHeight(img, idx) == IF idx = 0 THEN img.height ELSE img.height \div 2

\* the patch origins of a plane in the order of the loops over y and x
PatchOrigins(width, height) ==
    [n \in 1..NumPatches(width, height) |->
        <<CoordX(n - 1, width), CoordY(n - 1, width)>>]

\* the fill of patchBuffer with edge clamping: the numerator of val = Y / 255.0
\* for each of the 64 entries; the buffer's former content is not read
FillPatch(buf, img, idx, x, y) ==
    [n \in DOMAIN buf |->
        LET origX == Min(x + (n % PatchSize), PlaneWidth(img, idx) - 1)
            origY == Min(y + (n \div PatchSize), PlaneHeight(img, idx) - 1)
        IN PlaneAt(img, idx, origX, origY)]

\* patchPool.New: make([]float32, 64)
NewPatchBuffer == [n \in 0..(PixelCount - 1) |-> 0]

\* threshValues[idx] in ten-thousandths: threshold, threshold * 0.44
PlaneThreshold(tC, idx) == IF idx = 0 THEN 100 * tC ELSE 44 * tC

\* compress_coeffs on bin 0 = 64 * v / 255 of a patch of the single value
\* v / 255: the bin is kept unless re * re + im * im < t_sq
KeepsBin0(v, t) == ~(640000 * v < 255 * Abs(t))

\* GapCompressPatch and the quantization of gapEncodePlane for a patch buffer
\* of a single value: what the patch appends to the five streams.  The
\* polylog filter multiplies bins 1..63, which are 0, so s does not enter.
EncodePatch(buf, t) ==
    LET v == buf[0]
        emitted == v > 0 /\ KeepsBin0(v, t)
    IN [angles |-> <<0>>,
        counts |-> <<IF emitted THEN 1 ELSE 0>>,
        maxVals |-> IF emitted THEN F32Bytes(64 * v, 255, FALSE)
                    ELSE F32Bytes(1, 1, FALSE),
        indices |-> IF emitted THEN <<0>> ELSE <<>>,
        values |-> IF emitted THEN <<127, 0>> ELSE <<>>]

\* sValues[idx] in thousandths: s, chromaS = s * 0.4
PlaneS(sC, idx) == IF idx = 0 THEN 10 * sC ELSE 4 * sC

StreamNames == <<"angles", "counts", "maxVals", "indices", "values">>

EmptyStreams ==
    [angles |-> <<>>, counts |-> <<>>, maxVals |-> <<>>, indices |-> <<>>,
     values |-> <<>>]

\* angles = append(angles, byteAngle) ... for the five streams
AppendPatch(streams, patch) ==
    [k \in DOMAIN streams |-> streams[k] \o patch[k]]

\* gapEncodePlane with a fresh buffer for every patch
RECURSIVE EncodePlaneLoop(_, _, _, _, _, _)
EncodePlaneLoop(img, idx, t, origins, n, streams) ==
    IF n > Len(origins) THEN streams
    ELSE LET buf == FillPatch(NewPatchBuffer, img, idx,
                                origins[n][1], origins[n][2])
             next == AppendPatch(streams, EncodePatch(buf, t))
         IN CASE Len(next.angles) = n ->
                EncodePlaneLoop(img, idx, t, origins, n + 1, next)

gapEncodePlane(img, idx, tC) ==
    EncodePlaneLoop(img, idx, PlaneThreshold(tC, idx),
                    PatchOrigins(PlaneWidth(img, idx), PlaneHeight(img, idx)),
                    1, EmptyStreams)

\* the header EncodeImage writes
HeaderBytes(img, sC, tC) ==
    <<71, 65, 80, 1>> \o LE32(img.width) \o LE32(img.height)
        \o F32Bytes(Abs(sC), 100, sC < 0) \o F32Bytes(Abs(tC), 100, tC < 0)
        \o LE32(14) \o LE32(3)

\* the block of one stream with C written before U
writeStreamLengthsSwapped(data) ==
    LET compressed == GapCompressData(data)
    IN IF compressed = <<>> THEN LE32(0) \o LE32(0)
       ELSE LE32(Len(compressed)) \o LE32(Len(data)) \o compressed

\* writeStream: the block of one stream, U, C and the C compressed bytes
writeStream(data) ==
    LET compressed == GapCompressData(data)
    IN IF compressed = <<>> THEN LE32(0) \o LE32(0)
       ELSE LE32(Len(data)) \o LE32(Len(compressed)) \o compressed

\* the five blocks of one plane in the order Angles, Counts, MaxVals,
\* Indices, Values
PlaneBlocks(r) ==
    writeStream(r.angles) \o writeStream(r.counts) \o writeStream(r.maxVals)
        \o writeStream(r.indices) \o writeStream(r.values)

(***************************************************************************)
(* EncodeImage: the three plane encoders and the writing of the file.      *)
(***************************************************************************)
ColourSamples == <<<<255, 0, 0>>, <<1, 1, 1>>, <<255, 255, 255>>>>

CodecSizes == {<<1, 1>>, <<17, 8>>, <<24, 8>>}

\* (s, threshold) in hundredths: the defaults, s below 0, s = 6.4, a
\* threshold below 0, and both 0
CodecParams == {<<10, 50>>, <<-100, 50>>, <<640, 50>>, <<10, -50>>, <<0, 0>>}

Planes == 0..2

\* the images of a size: the colours of the samples, in turn, on the tiles
ImagesOf(size) ==
    {[width |-> size[1], height |-> size[2],
      tiles |-> [c \in (0..((size[1] - 1) \div TileSize))
                          \X (0..((size[2] - 1) \div TileSize)) |->
                    ColourSamples[1 + ((base + c[1] + c[2]) % Len(ColourSamples))]]] :
        base \in 0..(Len(ColourSamples) - 1)}

CodecInit ==
    /\ codecPc = "start"
    /\ \E size \in CodecSizes : image \in ImagesOf(size)
    /\ \E prm \in CodecParams : encS = prm[1] /\ encT = prm[2]
    /\ file = <<>>
    /\ planeEnc = <<>>
    /\ patchPool = EmptyBag
    /\ results = <<>>
    /\ encI = 0
    /\ encErr = ""
    /\ tampered = {}
    /\ decHeader = <<>>
    /\ allPlaneData = <<>>
    /\ planeDec = <<>>
    /\ decErr = ""
    /\ RcIdle /\ PermIdle /\ PltIdle /\ SplitIdle
    /\ FmIdle /\ QuantIdle /\ PostIdle /\ LateIdle

\* EncodeImage up to the start of the plane encoders: the planes, the header
\* written to the file, go func(idx int) for idx = 0, 1, 2
EncStart ==
    /\ codecPc = "start"
    /\ file' = HeaderBytes(image, encS, encT)
    /\ planeEnc' = [idx \in Planes |->
                       [pc |-> "get", n |-> 1, buf |-> <<>>,
                        s |-> PlaneS(encS, idx),
                        streams |-> EmptyStreams]]
    /\ results' = [idx \in Planes |-> <<>>]
    /\ codecPc' = "encoding"
    /\ UNCHANGED <<image, encS, encT, patchPool, encI, encErr, decVars>>
    /\ CodecFrame

\* the patch origins of plane idx
OriginsOf(idx) ==
    PatchOrigins(PlaneWidth(image, idx), PlaneHeight(image, idx))

\* gapEncodePlane, one patch: patchPool.Get() with the buffer got (one of
\* the pool or a new one), the fill, GapCompressPatch, the quantization and
\* the appends to the streams
PlaneGet(idx, got) ==
    /\ codecPc = "encoding"
    /\ planeEnc[idx].pc = "get"
    /\ planeEnc[idx].n <= Len(OriginsOf(idx))
    /\ \/ got = NewPatchBuffer
       \/ BagIn(got, patchPool)
    /\ patchPool' = IF BagIn(got, patchPool) THEN patchPool (-) SetToBag({got})
                    ELSE patchPool
    /\ LET me == planeEnc[idx]
           at == OriginsOf(idx)[me.n]
           buf == FillPatch(got, image, idx, at[1], at[2])
           patch == EncodePatch(buf, PlaneThreshold(encT, idx))
       IN planeEnc' = [planeEnc EXCEPT
              ![idx] = [me EXCEPT !.pc = "put", !.buf = buf,
                                  !.streams = AppendPatch(@, patch)]]
    /\ UNCHANGED <<codecPc, file, image, encS, encT, results, encI, encErr,
                   decVars>>
    /\ CodecFrame

\* patchPool.Put(patchBuffer); the loop goes on
PlanePut(idx) ==
    /\ codecPc = "encoding"
    /\ planeEnc[idx].pc = "put"
    /\ patchPool' = patchPool (+) SetToBag({planeEnc[idx].buf})
    /\ planeEnc' = [planeEnc EXCEPT
           ![idx] = [@ EXCEPT !.pc = "get", !.buf = <<>>, !.n = @ + 1]]
    /\ UNCHANGED <<codecPc, file, image, encS, encT, results, encI, encErr,
                   decVars>>
    /\ CodecFrame

\* the result stored in the first free slot
StoreResultInOrderOfCompletion(res, idx, r) ==
    LET free == CHOOSE i \in Planes :
                    res[i] = <<>> /\ \A j \in 0..(i - 1) : res[j] # <<>>
    IN [res EXCEPT ![free] = r]

\* results[idx] = planeResult{...}
StoreResult(res, idx, r) == [res EXCEPT ![idx] = r]

\* gapEncodePlane returns; results[idx] is stored; wg.Done()
PlaneReturn(idx) ==
    /\ codecPc = "encoding"
    /\ planeEnc[idx].pc = "get"
    /\ planeEnc[idx].n > Len(OriginsOf(idx))
    /\ results' = StoreResult(results, idx, planeEnc[idx].streams)
    /\ planeEnc' = [planeEnc EXCEPT ![idx] = [@ EXCEPT !.pc = "done"]]
    /\ UNCHANGED <<codecPc, file, image, encS, encT, patchPool, encI, encErr,
                   decVars>>
    /\ CodecFrame

\* wg.Wait(); no result holds an error
EncWait ==
    /\ codecPc = "encoding"
    /\ \A idx \in Planes : planeEnc[idx].pc = "done"
    /\ codecPc' = "writing"
    /\ encI' = 0
    /\ UNCHANGED <<file, image, encS, encT, planeEnc, patchPool, results,
                   encErr, decVars>>
    /\ CodecFrame

\* the write loop, one plane: the five writeStream calls of plane i
EncWritePlane ==
    /\ codecPc = "writing"
    /\ encI < 3
    /\ file' = file \o PlaneBlocks(results[encI])
    /\ encI' = encI + 1
    /\ UNCHANGED <<codecPc, image, encS, encT, planeEnc, patchPool, results,
                   encErr, decVars>>
    /\ CodecFrame

\* return nil; runEncode prints Success and the process ends, and with it
\* the goroutines and the pool
EncReturn ==
    /\ codecPc = "writing"
    /\ encI = 3
    /\ encErr' = "nil"
    /\ patchPool' = EmptyBag
    /\ codecPc' = "encoded"
    /\ UNCHANGED <<file, image, encS, encT, planeEnc, results, encI, decVars>>
    /\ CodecFrame

EncNext ==
    \/ EncStart
    \/ \E idx \in Planes :
          \E got \in {NewPatchBuffer} \cup BagToSet(patchPool) : PlaneGet(idx, got)
    \/ \E idx \in Planes : PlanePut(idx)
    \/ \E idx \in Planes : PlaneReturn(idx)
    \/ EncWait
    \/ EncWritePlane
    \/ EncReturn

SpecEnc == CodecInit /\ [][EncNext]_vars

(***************************************************************************)
(* The .gap file between the two runs, and DecodeImage.  EncodeImage runs  *)
(* here in one step; its plane encoders are interleaved in SpecEnc.        *)
(***************************************************************************)
\* (s, threshold) of the files that are decoded
DecodedParams == {<<10, 50>>, <<0, 0>>}

DecInit ==
    /\ CodecInit
    /\ <<encS, encT>> \in DecodedParams

\* the file EncodeImage writes: the header, then the blocks of plane 0, 1, 2
EncodedFile(img, sC, tC) ==
    HeaderBytes(img, sC, tC)
        \o PlaneBlocks(gapEncodePlane(img, 0, tC))
        \o PlaneBlocks(gapEncodePlane(img, 1, tC))
        \o PlaneBlocks(gapEncodePlane(img, 2, tC))

\* EncodeImage from its call to its return
EncodeRun ==
    /\ codecPc = "start"
    /\ results' = [idx \in Planes |-> gapEncodePlane(image, idx, encT)]
    /\ planeEnc' = [idx \in Planes |->
                       [pc |-> "done", n |-> Len(OriginsOf(idx)) + 1,
                        buf |-> <<>>,
                        s |-> PlaneS(encS, idx),
                        streams |-> gapEncodePlane(image, idx, encT)]]
    /\ file' = EncodedFile(image, encS, encT)
    /\ encI' = 3
    /\ encErr' = "nil"
    /\ codecPc' = "encoded"
    /\ UNCHANGED <<image, encS, encT, patchPool, decVars>>
    /\ CodecFrame

HeaderSize == 28

\* the 1-based position of the header field Channels
ChannelsAt == 25

\* one more change of the file is made: the magic bytes may be changed
\* besides one other change
MayTamper(kind) ==
    /\ codecPc = "encoded"
    /\ kind \notin tampered
    /\ kind = "magic" \/ tampered \subseteq {"magic"}

\* one of the first four bytes of the file is changed
TamperMagic(i) ==
    /\ MayTamper("magic")
    /\ Len(file) >= 4
    /\ file' = [file EXCEPT ![i] = (@ + 1) % 256]
    /\ tampered' = tampered \cup {"magic"}
    /\ UNCHANGED <<codecPc, encVars, decHeader, allPlaneData, planeDec, decErr>>
    /\ CodecFrame

\* the header field Channels is changed to c
TamperChannels(c) ==
    /\ MayTamper("channels")
    /\ Len(file) >= HeaderSize
    /\ file' = SubSeq(file, 1, ChannelsAt - 1) \o LE32(c)
                 \o SubSeq(file, ChannelsAt + 4, Len(file))
    /\ tampered' = tampered \cup {"channels"}
    /\ UNCHANGED <<codecPc, encVars, decHeader, allPlaneData, planeDec, decErr>>
    /\ CodecFrame

\* the file is cut to its first n bytes
TamperCut(n) ==
    /\ MayTamper("cut")
    /\ n < Len(file)
    /\ file' = SubSeq(file, 1, n)
    /\ tampered' = tampered \cup {"cut"}
    /\ UNCHANGED <<codecPc, encVars, decHeader, allPlaneData, planeDec, decErr>>
    /\ CodecFrame

\* the blocks of a file: for count blocks from the 1-based position at, U, C
\* and the C bytes; not ok if the file ends before
RECURSIVE ReadBlocks(_, _, _, _)
ReadBlocks(bytes, at, count, blocks) ==
    IF count = 0 THEN [ok |-> TRUE, blocks |-> blocks]
    ELSE IF at + 7 > Len(bytes) THEN [ok |-> FALSE, blocks |-> blocks]
    ELSE LET uLen == Uint32At(bytes, at)
             cLen == Uint32At(bytes, at + 4)
         IN IF at + 7 + cLen > Len(bytes) THEN [ok |-> FALSE, blocks |-> blocks]
            ELSE ReadBlocks(bytes, at + 8 + cLen, count - 1,
                            Append(blocks,
                                   [uLen |-> uLen,
                                    cData |-> SubSeq(bytes, at + 8, at + 7 + cLen)]))

\* the bytes of a sequence of blocks
RECURSIVE BlockBytes(_)
BlockBytes(blocks) ==
    IF blocks = <<>> THEN <<>>
    ELSE LE32(Head(blocks).uLen) \o LE32(Len(Head(blocks).cData))
             \o Head(blocks).cData \o BlockBytes(Tail(blocks))

\* the compressed bytes of block j are cut to their first keep bytes and C is
\* set to keep; U stays
TamperStream(j, keep) ==
    /\ MayTamper("stream")
    /\ tampered = {}
    /\ LET read == ReadBlocks(file, HeaderSize + 1, 15, <<>>)
           blocks == read.blocks
       IN /\ read.ok
          /\ keep < Len(blocks[j].cData)
          /\ file' = SubSeq(file, 1, HeaderSize)
                       \o BlockBytes([blocks EXCEPT ![j].cData = SubSeq(@, 1, keep)])
    /\ tampered' = tampered \cup {"stream"}
    /\ UNCHANGED <<codecPc, encVars, decHeader, allPlaneData, planeDec, decErr>>
    /\ CodecFrame

\* the comparison of the magic with the last byte left out
MagicOkFirstThree(bytes) == SubSeq(bytes, 1, 3) = <<71, 65, 80>>

\* string(header.Magic[:]) == "GAP\x01"
MagicOk(bytes) == SubSeq(bytes, 1, 4) = <<71, 65, 80, 1>>

\* binary.Read(file, binary.LittleEndian, &header) and the magic check
DecReadHeader ==
    /\ codecPc = "encoded"
    /\ IF Len(file) < HeaderSize
       THEN /\ decErr' = "failed to read header"
            /\ codecPc' = "decoded"
            /\ UNCHANGED decHeader
       ELSE IF ~MagicOk(file)
       THEN /\ decErr' = "invalid magic bytes"
            /\ codecPc' = "decoded"
            /\ UNCHANGED decHeader
       ELSE /\ decHeader' = [Width |-> Uint32At(file, 5),
                             Height |-> Uint32At(file, 9),
                             S |-> SubSeq(file, 13, 16),
                             Threshold |-> SubSeq(file, 17, 20),
                             Flags |-> Uint32At(file, 21),
                             Channels |-> Uint32At(file, ChannelsAt)]
            /\ codecPc' = "header"
            /\ UNCHANGED decErr
    /\ UNCHANGED <<file, encVars, tampered, allPlaneData, planeDec>>
    /\ CodecFrame

\* channels := int(header.Channels); if channels == 0 { channels = 1 }
ChannelsOf(header) == IF header.Channels = 0 THEN 1 ELSE header.Channels

\* isRangeCoded := (header.Flags & FlagRangeCoded) != 0
IsRangeCoded(header) == (header.Flags \div 8) % 2 = 1

\* the pre-read of the blocks of all planes, and go func(pIdx int) per plane
DecReadBlocks ==
    /\ codecPc = "header"
    /\ IsRangeCoded(decHeader)
    /\ LET channels == ChannelsOf(decHeader)
           read == ReadBlocks(file, HeaderSize + 1, 5 * channels, <<>>)
           blocks == read.blocks
       IN IF ~read.ok
          THEN /\ decErr' = "unexpected EOF"
               /\ codecPc' = "decoded"
               /\ UNCHANGED <<allPlaneData, planeDec>>
          ELSE /\ allPlaneData' = [i \in 0..(channels - 1) |->
                                      SubSeq(blocks, 5 * i + 1, 5 * i + 5)]
               /\ planeDec' = [i \in 0..(channels - 1) |->
                                  [pc |-> "run", streams |-> <<>>, s_val |-> 0]]
               /\ codecPc' = "planes"
               /\ UNCHANGED decErr
    /\ UNCHANGED <<file, encVars, tampered, decHeader>>
    /\ CodecFrame

\* the five stream goroutines of a plane: GapDecompressData if uLen > 0
DecompressBlock(block) ==
    IF block.uLen > 0 THEN GapDecompressData(block.cData, block.uLen) ELSE <<>>

\* the float32 binary.Read gives header.S from its four bytes, in
\* hundredths, to the nearest
F32Hundredths(b) ==
    LET biased == (b[4] % 128) * 2 + (b[3] \div 128)
        frac == (b[3] % 128) * 65536 + b[2] * 256 + b[1]
        sig == IF biased = 0 THEN frac ELSE 8388608 + frac
        e == IF biased = 0 THEN -149 ELSE biased - 150
        v == IF e >= 0 THEN 100 * sig * (2 ^ e)
             ELSE IF -e > 31 THEN 0
             ELSE (((100 * sig) \div (2 ^ (-e - 1))) + 1) \div 2
    IN IF b[4] >= 128 THEN -v ELSE v

\* the plane goroutine pIdx: its five streams are decompressed and
\* gapDecodePlaneSplit(..., header.S), which returns no error, gives
\* planes[pIdx]
DecPlane(pIdx) ==
    /\ codecPc = "planes"
    /\ planeDec[pIdx].pc = "run"
    /\ planeDec' = [planeDec EXCEPT
           ![pIdx] = [pc |-> "done",
                      streams |-> [k \in 1..5 |->
                                      DecompressBlock(allPlaneData[pIdx][k])],
                      s_val |-> F32Hundredths(decHeader.S)]]
    /\ UNCHANGED <<codecPc, file, encVars, tampered, decHeader, allPlaneData,
                   decErr>>
    /\ CodecFrame

\* pwg.Wait(); the upsampling if channels == 3, the merge (of three planes
\* if channels == 3, else of planes[0] as grey), the filters and the PNG
DecFinish ==
    /\ codecPc = "planes"
    /\ \A i \in DOMAIN planeDec : planeDec[i].pc = "done"
    /\ decErr' = "nil"
    /\ codecPc' = "decoded"
    /\ UNCHANGED <<file, encVars, tampered, decHeader, allPlaneData, planeDec>>
    /\ CodecFrame

ChannelSamples == {0, 1, 2, 4}

DecNext ==
    \/ EncodeRun
    \/ \E i \in 1..4 : TamperMagic(i)
    \/ \E c \in ChannelSamples : TamperChannels(c)
    \/ \E n \in {0, 3, HeaderSize - 1, Len(file) - 1} : TamperCut(n)
    \/ \E j \in 1..15 : \E keep \in {0, 1, 4} : TamperStream(j, keep)
    \/ DecReadHeader
    \/ DecReadBlocks
    \/ \E pIdx \in DOMAIN planeDec : DecPlane(pIdx)
    \/ DecFinish

SpecDec == DecInit /\ [][DecNext]_vars

\* the first four bytes of the file are not 47 41 50 01
BadMagic ==
    \/ Len(file) < 4
    \/ <<file[1], file[2], file[3], file[4]>> # <<71, 65, 80, 1>>

\* C2: magic validation: DecodeImage rejects with an error every input whose
\* first four bytes are not 47 41 50 01, whatever the rest of the file
\* contains: once it has read the header of such a file it has returned, with
\* the error of the magic check or of the header read, and has produced no
\* image.
MagicValidation ==
    (BadMagic /\ codecPc \in {"header", "planes", "decoded"}) =>
        /\ codecPc = "decoded"
        /\ decErr \in {"invalid magic bytes", "failed to read header"}
        /\ planeDec = <<>>

\* a file whose fourth byte and whose Channels field were changed was
\* rejected for its magic
MagicValidationWitness ==
    /\ codecPc = "decoded"
    /\ tampered = {"magic", "channels"}
    /\ Len(file) > HeaderSize
    /\ <<file[1], file[2], file[3], file[4]>> = <<71, 65, 80, 2>>
    /\ decErr = "invalid magic bytes"

\* C3: container round-trip at stream level: of the file EncodeImage wrote,
\* DecodeImage reads for the planes 0, 1, 2 and the streams Angles, Counts,
\* MaxVals, Indices, Values, in this order, blocks whose U is the length of
\* the stream the encoder fed to the range coder, an empty stream as U = 0,
\* C = 0 without bytes, and decompresses every block to exactly the bytes
\* of that stream; the decode returns no error.
ContainerRoundTrip ==
    (tampered = {} /\ codecPc \in {"planes", "decoded"}) =>
        /\ DOMAIN planeDec = 0..2
        /\ \A p \in 0..2 : \A k \in 1..5 :
              LET fed == results[p][StreamNames[k]]
              IN /\ allPlaneData[p][k].uLen = Len(fed)
                 /\ fed = <<>> => allPlaneData[p][k].cData = <<>>
                 /\ fed # <<>> => allPlaneData[p][k].cData # <<>>
                 /\ planeDec[p].pc = "done" => planeDec[p].streams[k] = fed
        /\ codecPc = "decoded" => decErr = "nil"

\* the file of a 1 x 1 image was decoded: the streams of its luma patch,
\* with one coefficient, and the empty streams of its chroma planes
ContainerRoundTripWitness ==
    /\ codecPc = "decoded"
    /\ tampered = {}
    /\ image.width = 1
    /\ results[0].values = <<127, 0>>
    /\ planeDec[0].streams[5] = <<127, 0>>
    /\ Len(planeDec[0].streams[3]) = 4
    /\ results[2].angles = <<>>
    /\ allPlaneData[2][1] = [uLen |-> 0, cData |-> <<>>]
    /\ planeDec[2].streams[1] = <<>>

\* C4: a container whose header field Channels is not 1 and not 3 is rejected
\* by DecodeImage with an error, and no image is produced for it.
ChannelsRejected ==
    (/\ codecPc = "decoded"
     /\ Len(file) >= 28
     /\ ~BadMagic
     /\ file[25] + 256 * file[26] + 65536 * file[27] \notin {1, 3}) =>
        decErr # "nil"

\* C5: truncated stream detection: when the compressed bytes of a stream
\* with U > 0 have been cut, to none (C = 0) or to fewer than the encoder
\* wrote, DecodeImage returns an error instead of producing an image.
TruncatedStreamIsFatal ==
    (codecPc = "decoded" /\ tampered = {"stream"}) => decErr # "nil"
\* C6: encoding with a parameter out of range (s < 0, s >= 6.4 or
\* threshold < 0) is rejected with an error instead of being encoded: when
\* EncodeImage has returned for such parameters it has returned an error.
ParameterOutOfRangeRejected ==
    (codecPc = "encoded" /\ (encS < 0 \/ encS >= 640 \/ encT < 0)) =>
        encErr # "nil"

\* C8: encode determinism under parallelism: the bytes EncodeImage has
\* written when it returns are those of the header followed by the blocks of
\* the planes 0, 1, 2 encoded one after the other with buffers of their own,
\* whatever the interleaving and the order of completion of the three plane
\* encoders and whichever buffers of the shared pool they got; nothing but
\* the header is written before all three have finished, and then the planes'
\* blocks are written in the order 0, 1, 2.
EncodeDeterminism ==
    /\ codecPc = "encoding" => file = HeaderBytes(image, encS, encT)
    /\ codecPc = "writing" =>
          /\ \A idx \in 0..2 : planeEnc[idx].pc = "done"
          /\ encI = 0 => file = HeaderBytes(image, encS, encT)
          /\ encI = 1 =>
                file = HeaderBytes(image, encS, encT)
                           \o PlaneBlocks(gapEncodePlane(image, 0, encT))
          /\ encI = 2 =>
                file = HeaderBytes(image, encS, encT)
                           \o PlaneBlocks(gapEncodePlane(image, 0, encT))
                           \o PlaneBlocks(gapEncodePlane(image, 1, encT))
    /\ (codecPc = "encoded" \/ (codecPc = "writing" /\ encI = 3)) =>
          file = HeaderBytes(image, encS, encT)
                     \o PlaneBlocks(gapEncodePlane(image, 0, encT))
                     \o PlaneBlocks(gapEncodePlane(image, 1, encT))
                     \o PlaneBlocks(gapEncodePlane(image, 2, encT))

\* the file of a 24 x 8 image of two colours is written, with different
\* streams for the three planes, its seven patches having gone through two
\* buffers of the pool, which the plane encoders shared
EncodeDeterminismWitness ==
    /\ codecPc = "writing"
    /\ encI = 3
    /\ image.width = 24
    /\ BagCardinality(patchPool) = 2
    /\ results[0] # results[1] /\ results[1] # results[2]
    /\ Len(file) > HeaderSize + 15 * 8

\* C14: per-plane decay parameter agreement: every plane DecodeImage has
\* decoded of an unchanged file was inverse-filtered with the index
\* clamp(floor(10 * s_plane), 0, 63) of the weight tables with which
\* EncodeImage forward-filtered it, s_plane being s for Y and s * 0.4 for Cb
\* and Cr.
DecayIndexAgreement ==
    \A p \in DOMAIN planeDec :
        (tampered = {} /\ planeDec[p].pc = "done") =>
            SIdx(planeDec[p].s_val) = SIdx(planeEnc[p].s \div 10)

(***************************************************************************)
(* engine/decoder.go: the quantization loop of gapEncodePlane and the      *)
(* sequential stage of gapDecodePlaneSplit.  What GapCompressPatch gives   *)
(* for a patch (the angle and the 64 coefficients) is drawn from samples;  *)
(* a coefficient is a pair <<re, im>> of integers in units of 1 /          *)
(* QuantUnit, an angle is in 255ths of a turn.  A float32 the Go code      *)
(* computes is a pair <<m, e>> standing for m * 2^e, rounded to 24 bits as *)
(* the float32 operations round.                                           *)
(***************************************************************************)
QuantUnit == 4

\* m * 2^e with the factors of two moved from m (> 0) to the exponent
RECURSIVE FltReduce(_, _)
FltReduce(m, e) ==
    IF m = 0 THEN <<0, 0>>
    ELSE IF m % 2 = 0 THEN FltReduce(m \div 2, e + 1)
    ELSE <<m, e>>

\* the number of low bits m >= 0 has beyond 24
RECURSIVE FltExcess(_, _)
FltExcess(m, sh) == IF m \div (2 ^ sh) < 16777216 THEN sh ELSE FltExcess(m, sh + 1)

\* m * 2^e rounded to a significand of 24 bits, to nearest, ties to even
FltRound(m, e) ==
    LET sh == FltExcess(m, 0)
        q == m \div (2 ^ sh)
        rem == m % (2 ^ sh)
        up == sh > 0 /\ (2 * rem > 2 ^ sh \/ (2 * rem = 2 ^ sh /\ q % 2 = 1))
    IN FltReduce(IF up THEN q + 1 ELSE q, e + sh)

\* the float32 quotient num / den of two integers that are float32 values
\* (num >= 0, den > 0)
FltDiv(num, den) ==
    IF num = 0 THEN <<0, 0>>
    ELSE LET n == F32Normal(num, den, 0)
             m == F32Mantissa(1, n[1] - n[2], n[2], 23)
             up == 2 * m[2] > n[2] \/ (2 * m[2] = n[2] /\ m[1] % 2 = 1)
         IN FltReduce(IF up THEN m[1] + 1 ELSE m[1], n[3] - 23)

\* the float32 product of two float32 values (the product of the
\* significands below 2^31)
FltMul(a, b) == FltRound(a[1] * b[1], a[2] + b[2])

\* int8(f) of a float32 f >= 0: the fraction is dropped
FltTrunc(a) ==
    IF a[2] >= 0 THEN a[1] * (2 ^ a[2])
    ELSE IF -a[2] > 30 THEN 0
    ELSE a[1] \div (2 ^ (-a[2]))

\* a <= b for two float32 values >= 0
FltLeq(a, b) ==
    IF a[1] = 0 THEN TRUE
    ELSE IF b[1] = 0 THEN FALSE
    ELSE LET k == b[2] - a[2]
         IN IF k > 30 THEN TRUE
            ELSE IF k >= 0 THEN (a[1] + (2 ^ k) - 1) \div (2 ^ k) <= b[1]
            ELSE IF -k > 30 THEN FALSE
            ELSE a[1] <= b[1] \div (2 ^ (-k))

\* math.Float32frombits(binary.LittleEndian.Uint32(b)) of a float32 >= 0
FltOfBytes(b) ==
    LET biased == (b[4] % 128) * 2 + (b[3] \div 128)
        frac == (b[3] % 128) * 65536 + b[2] * 256 + b[1]
    IN IF biased = 0 THEN FltReduce(frac, -149)
       ELSE FltReduce(8388608 + frac, biased - 150)

\* mag > 0, mag = math.Sqrt(float64(re*re + im*im))
IsEmitted(c) == c[1] # 0 \/ c[2] # 0

\* the maximum taken over the real parts alone
MaxValOfRealParts(coeffs) ==
    LET parts == {0} \cup {Abs(coeffs[k][1]) : k \in {j \in Bins : IsEmitted(coeffs[j])}}
        maxVal == CHOOSE v \in parts : \A u \in parts : u <= v
    IN IF maxVal = 0 THEN QuantUnit ELSE maxVal

\* Find MaxVal: the largest |re| and |im| of the bins k = 0..63 with
\* mag > 0, starting from 0, and if maxVal == 0 { maxVal = 1.0 }
MaxValOf(coeffs) ==
    LET parts == {0} \cup {Abs(coeffs[k][1]) : k \in {j \in Bins : IsEmitted(coeffs[j])}}
                     \cup {Abs(coeffs[k][2]) : k \in {j \in Bins : IsEmitted(coeffs[j])}}
        maxVal == CHOOSE v \in parts : \A u \in parts : u <= v
    IN IF maxVal = 0 THEN QuantUnit ELSE maxVal

\* int8(re / maxVal * 127.0)
Quantize(v, maxVal) ==
    LET q == FltTrunc(FltMul(FltDiv(Abs(v), maxVal), <<127, 0>>))
    IN IF v < 0 THEN -q ELSE q

\* byte(qRe) of an int8, and int8(b) of a byte
ByteOfInt8(q) == (q + 256) % 256

Int8OfByte(b) == IF b >= 128 THEN b - 256 ELSE b

\* the bins the second loop over k = 0..63 appends to indices, in the order
\* of the loop: the i-th is the bin with mag > 0 that has i - 1 such bins
\* before it
EmittedBins(coeffs) ==
    LET emitted == {k \in Bins : IsEmitted(coeffs[k])}
    IN [i \in 1..Cardinality(emitted) |->
           CHOOSE k \in emitted : Cardinality({j \in emitted : j < k}) = i - 1]

\* values = append(values, byte(qRe), byte(qIm)) for the pairs <<qRe, qIm>>
ValueBytes(pairs) ==
    [n \in 1..(2 * Len(pairs)) |-> ByteOfInt8(pairs[(n + 1) \div 2][2 - (n % 2)])]

\* the index byte of bin k, bins numbered from 1
IndexByteOneBased(k) == (k + 1) % 256

\* uint8(k)
IndexByte(k) == k % 256

\* byteAngle := uint8((normAngle / (2 * math.Pi)) * 255.0), normAngle being
\* the angle with 2 * Pi added while it is below 0
RECURSIVE ByteAngle(_)
ByteAngle(angle) == IF angle < 0 THEN ByteAngle(angle + 255) ELSE angle

\* the quantization of one patch: what the patch appends to the five streams
QuantizePatch(angle, coeffs) ==
    LET maxVal == MaxValOf(coeffs)
        bins == EmittedBins(coeffs)
        quantized == [i \in 1..Len(bins) |->
                         <<Quantize(coeffs[bins[i]][1], maxVal),
                           Quantize(coeffs[bins[i]][2], maxVal)>>]
    IN [angles |-> <<ByteAngle(angle)>>,
        counts |-> <<Len(bins) % 256>>,
        maxVals |-> F32Bytes(maxVal, QuantUnit, FALSE),
        indices |-> [i \in 1..Len(bins) |-> IndexByte(bins[i])],
        values |-> ValueBytes(quantized),
        maxVal |-> maxVal,
        quantized |-> quantized]

\* float32(qRe) / 127.0 * maxVal, for the absolute value of qRe
Dequantize(q, maxVal) == FltMul(FltDiv(Abs(q), 127), maxVal)

\* for k := 0; k < count; k++ { ... }: the bins of one patch read from
\* indices and values, and the pointers after them.  The loop ends after
\* count bins or when ptrIdx >= len(indices) || ptrVal+1 >= len(values).
ParseBins(indices, values, ptrIdx, ptrVal, count, maxVal) ==
    LET read == Max(0, Min(count, Min(Len(indices) - ptrIdx,
                                      (Len(values) - ptrVal) \div 2)))
    IN [bins |-> [k \in 1..read |->
                     LET idx == indices[ptrIdx + k]
                         qRe == Int8OfByte(values[ptrVal + 2 * k - 1])
                         qIm == Int8OfByte(values[ptrVal + 2 * k])
                     IN [idx |-> idx, qRe |-> qRe, qIm |-> qIm,
                         stored |-> idx < PixelCount,
                         re |-> Dequantize(qRe, maxVal),
                         im |-> Dequantize(qIm, maxVal)]],
        ptrIdx |-> ptrIdx + read,
        ptrVal |-> ptrVal + 2 * read]

\* the sequential stage of gapDecodePlaneSplit: the patches parsed from the
\* five streams, p patches being parsed already
RECURSIVE ParsePlane(_, _, _, _, _, _)
ParsePlane(streams, width, height, p, ptr, parsed) ==
    IF \/ p >= NumPatches(width, height)
       \/ ptr.a >= Len(streams.angles)
       \/ ptr.c >= Len(streams.counts)
    THEN parsed
    ELSE LET hasMax == ptr.max + 4 <= Len(streams.maxVals)
             maxVal == IF hasMax
                       THEN FltOfBytes(SubSeq(streams.maxVals, ptr.max + 1, ptr.max + 4))
                       ELSE <<1, 0>>
             read == ParseBins(streams.indices, streams.values, ptr.idx, ptr.val,
                               streams.counts[ptr.c + 1], maxVal)
             patch == [x |-> CoordX(p, width), y |-> CoordY(p, width),
                       angle |-> streams.angles[ptr.a + 1],
                       count |-> streams.counts[ptr.c + 1],
                       maxVal |-> maxVal,
                       bins |-> read.bins]
         IN CASE Len(read.bins) >= 0 ->
                ParsePlane(streams, width, height, p + 1,
                           [a |-> ptr.a + 1, c |-> ptr.c + 1,
                            max |-> IF hasMax THEN ptr.max + 4 ELSE ptr.max,
                            idx |-> read.ptrIdx, val |-> read.ptrVal],
                           Append(parsed, patch))

\* the coefficients of a patch that are set in the bins of f
CoeffsWith(f) == [k \in Bins |-> IF k \in DOMAIN f THEN f[k] ELSE <<0, 0>>]

\* what GapCompressPatch gave: no coefficient; bin 0; all 64 bins; three
\* bins up to the last, of both signs; a small and a large coefficient
QuantSamples ==
    {[angle |-> 0, coeffs |-> CoeffsWith(<<>>)],
     [angle |-> 0, coeffs |-> CoeffsWith(0 :> <<3, -100>>)],
     [angle |-> -64, coeffs |-> [k \in Bins |-> <<k + 1, k - 64>>]],
     [angle |-> 100,
      coeffs |-> CoeffsWith(5 :> <<-127, 3>> @@ 17 :> <<1, -1>> @@ 63 :> <<0, 127>>)],
     [angle |-> 127,
      coeffs |-> CoeffsWith(0 :> <<1, 0>> @@ 1 :> <<127, 126>>)]}

\* planes of no, one, four (2 x 2) and three (3 x 1) patches
QuantSizes == {<<0, 0>>, <<8, 8>>, <<9, 16>>, <<17, 5>>}

QuantInit ==
    /\ qPc = "encode"
    /\ \E size \in QuantSizes : qWidth = size[1] /\ qHeight = size[2]
    /\ qX = 0
    /\ qY = 0
    /\ qPatches = <<>>
    /\ qStreams = EmptyStreams
    /\ qParsed = <<>>
    /\ RcIdle /\ PermIdle /\ PltIdle /\ SplitIdle /\ CodecIdle
    /\ FmIdle /\ PostIdle /\ LateIdle

\* gapEncodePlane, one iteration of the loops over y and x, GapCompressPatch
\* giving the angle and the coefficients of sample
QuantEncodePatch(sample) ==
    /\ qPc = "encode"
    /\ qY < Padded(qHeight)
    /\ qX < Padded(qWidth)
    /\ LET emitted == QuantizePatch(sample.angle, sample.coeffs)
       IN /\ qStreams' = AppendPatch(qStreams, emitted)
          /\ qPatches' = Append(qPatches,
                [x |-> qX, y |-> qY, coeffs |-> sample.coeffs,
                 emitted |-> emitted])
    /\ IF qX + 8 < Padded(qWidth)
       THEN qX' = qX + 8 /\ qY' = qY
       ELSE qX' = 0 /\ qY' = qY + 8
    /\ UNCHANGED <<qPc, qWidth, qHeight, qParsed>>
    /\ QuantFrame

\* the loops are over: return angles, counts, maxVals, indices, values, nil
QuantReturn ==
    /\ qPc = "encode"
    /\ ~(qY < Padded(qHeight) /\ qX < Padded(qWidth))
    /\ qPc' = "parse"
    /\ UNCHANGED <<qWidth, qHeight, qX, qY, qPatches, qStreams, qParsed>>
    /\ QuantFrame

\* gapDecodePlaneSplit on the five streams: the sequential stage
QuantParse ==
    /\ qPc = "parse"
    /\ qParsed' = ParsePlane(qStreams, qWidth, qHeight, 0,
                             [a |-> 0, c |-> 0, max |-> 0, idx |-> 0, val |-> 0],
                             <<>>)
    /\ qPc' = "done"
    /\ UNCHANGED <<qWidth, qHeight, qX, qY, qPatches, qStreams>>
    /\ QuantFrame

QuantNext ==
    \/ \E sample \in QuantSamples : QuantEncodePatch(sample)
    \/ QuantReturn
    \/ QuantParse

SpecQuant == QuantInit /\ [][QuantNext]_vars

\* the sum of the bytes of a sequence of at most four
SumBytes(q) ==
    (IF Len(q) > 0 THEN q[1] ELSE 0) + (IF Len(q) > 1 THEN q[2] ELSE 0)
        + (IF Len(q) > 2 THEN q[3] ELSE 0) + (IF Len(q) > 3 THEN q[4] ELSE 0)

\* C11: bin ordering: for every patch gapEncodePlane has emitted, the bin
\* indices it appended to Indices are strictly increasing and lie in 0..63,
\* their number is the patch's Counts byte, which is in 0..64, and is the
\* number of (q_re, q_im) pairs it appended to Values; and the decoder that
\* has parsed the streams has read, for each patch, this count and the same
\* sequence of indices and pairs.
BinOrdering ==
    /\ \A p \in 1..Len(qPatches) :
          LET e == qPatches[p].emitted
          IN /\ Len(e.counts) = 1
             /\ e.counts[1] \in 0..64
             /\ Len(e.indices) = e.counts[1]
             /\ Len(e.values) = 2 * e.counts[1]
             /\ \A i \in 1..Len(e.indices) : e.indices[i] \in 0..63
             /\ \A i \in 1..(Len(e.indices) - 1) : e.indices[i] < e.indices[i + 1]
    /\ qPc = "done" =>
          /\ Len(qParsed) = Len(qPatches)
          /\ \A p \in 1..Len(qPatches) :
                LET e == qPatches[p].emitted
                    d == qParsed[p]
                IN /\ d.count = e.counts[1]
                   /\ Len(d.bins) = d.count
                   /\ \A i \in 1..Len(d.bins) :
                         /\ d.bins[i].idx = e.indices[i]
                         /\ d.bins[i].stored
                         /\ ByteOfInt8(d.bins[i].qRe) = e.values[2 * i - 1]
                         /\ ByteOfInt8(d.bins[i].qIm) = e.values[2 * i]

\* the streams of a plane of four patches were parsed, among them a patch of
\* 64 bins, one of the bins 5, 17 and 63 and one without a bin
BinOrderingWitness ==
    /\ qPc = "done"
    /\ Len(qParsed) = 4
    /\ qParsed[1].count = 64 /\ qParsed[1].bins[64].idx = 63
    /\ qParsed[2].count = 0
    /\ qParsed[3].count = 3
    /\ <<qParsed[3].bins[1].idx, qParsed[3].bins[2].idx, qParsed[3].bins[3].idx>>
           = <<5, 17, 63>>
    /\ Len(qStreams.indices) > 67

\* C12: stream sizes: for a plane of W x H, gapEncodePlane emits exactly
\* n = ceil(W/8) * ceil(H/8) patches, in row-major order (left to right, then
\* top to bottom, in steps of 8), and the five streams it returns have
\* len(Angles) = len(Counts) = n, len(MaxVals) = 4n, len(Indices) = the sum
\* of the Counts bytes and len(Values) = 2 * len(Indices).
StreamSizes ==
    LET cols == (qWidth + 7) \div 8
        rows == (qHeight + 7) \div 8
    IN /\ \A p \in 1..Len(qPatches) :
             /\ qPatches[p].x = 8 * ((p - 1) % cols)
             /\ qPatches[p].y = 8 * ((p - 1) \div cols)
       /\ qPc \in {"parse", "done"} =>
             /\ Len(qPatches) = cols * rows
             /\ Len(qStreams.angles) = cols * rows
             /\ Len(qStreams.counts) = cols * rows
             /\ Len(qStreams.maxVals) = 4 * cols * rows
             /\ Len(qStreams.indices) = SumBytes(qStreams.counts)
             /\ Len(qStreams.values) = 2 * Len(qStreams.indices)

\* gapEncodePlane has returned the streams of a 9 x 16 plane: four patches,
\* the third at (0, 8), with 64 + 3 + 2 + 1 indices
StreamSizesWitness ==
    /\ qPc = "parse"
    /\ qWidth = 9 /\ qHeight = 16
    /\ Len(qPatches) = 4
    /\ qPatches[3].x = 0 /\ qPatches[3].y = 8
    /\ qStreams.counts = <<64, 3, 2, 1>>
    /\ Len(qStreams.maxVals) = 16
    /\ Len(qStreams.values) = 140

\* C13: quantization invariant: for every patch the encoder has emitted,
\* MaxVal is strictly greater than zero, and is 1.0 when no bin is non-zero;
\* every stored q_re and q_im lies in -127..127; and every value the decoder
\* dequantizes (q / 127 * MaxVal) has an absolute value of at most MaxVal.
QuantizationInvariant ==
    /\ \A p \in 1..Len(qPatches) :
          LET e == qPatches[p].emitted
          IN /\ Len(e.maxVals) = 4
             /\ FltOfBytes(e.maxVals)[1] > 0
             /\ e.counts[1] = 0 => FltOfBytes(e.maxVals) = <<1, 0>>
             /\ \A i \in 1..Len(e.quantized) :
                   /\ e.quantized[i][1] \in -127..127
                   /\ e.quantized[i][2] \in -127..127
                   /\ Int8OfByte(e.values[2 * i - 1]) = e.quantized[i][1]
                   /\ Int8OfByte(e.values[2 * i]) = e.quantized[i][2]
    /\ \A p \in 1..Len(qParsed) :
          /\ qParsed[p].maxVal = FltOfBytes(qPatches[p].emitted.maxVals)
          /\ \A i \in 1..Len(qParsed[p].bins) :
                /\ FltLeq(qParsed[p].bins[i].re, qParsed[p].maxVal)
                /\ FltLeq(qParsed[p].bins[i].im, qParsed[p].maxVal)

\* a patch without a bin (MaxVal 1.0) and a patch of MaxVal 100 / 4 with the
\* coefficient <<3, -100>>, quantized to <<3, -127>>, were emitted and
\* dequantized
QuantizationInvariantWitness ==
    /\ qPc = "done"
    /\ Len(qParsed) = 3
    /\ qPatches[1].emitted.maxVals = <<0, 0, 128, 63>>
    /\ qPatches[2].emitted.quantized = << <<3, -127>> >>
    /\ qParsed[2].maxVal = <<25, 0>>
    /\ qParsed[2].bins[1].im = <<25, 0>>
    /\ qParsed[2].bins[1].re # <<0, 0>>
    /\ qParsed[3].count = 64

(***************************************************************************)
(* engine/decoder.go: the merge and the post-filters of DecodeImage.  Each *)
(* pass spawns its worker goroutines and waits for them.  A worker is      *)
(* <<pass, wk>>; what it read and wrote is a set of <<wk, buffer, x, y>>.  *)
(* The buffers are "planes" (the decoded planes), "img" (finalImg) and the *)
(* image.NewRGBA allocations of the filters.                               *)
(***************************************************************************)
PostPasses == <<"merge", "vdeblock", "hdeblock", "dgaa", "lc1", "lc2">>

PassIdx(pass) == CHOOSE i \in 1..Len(PostPasses) : PostPasses[i] = pass

\* the pass after pass, "png" after the last
PassAfter(pass) ==
    IF PassIdx(pass) = Len(PostPasses) THEN "png"
    ELSE PostPasses[PassIdx(pass) + 1]

\* every filter filtering in place
DestOfInPlace(pass) == "img"

\* the buffer the workers of a pass write: finalImg for the merge and for
\* DeblockImageParallel, out := image.NewRGBA(bounds) for the others
DestOf(pass) ==
    CASE pass \in {"merge", "vdeblock", "hdeblock"} -> "img"
      [] pass = "dgaa" -> "out_dgaa"
      [] pass = "lc1" -> "out_lc1"
      [] pass = "lc2" -> "out_lc2"

\* the buffer the workers of a pass read
SourceOf(pass) == IF pass = "merge" THEN "planes" ELSE "img"

\* seams two pixels apart
EdgesStepTwo(n) == [i \in 1..(IF n < 10 THEN 0 ELSE (n - 8) \div 2) |-> 6 + 2 * i]

\* for x := 8; x < n-1; x += 8
Edges(n) == [i \in 1..(IF n < 2 THEN 0 ELSE (n - 2) \div 8) |-> 8 * i]

\* edges[startIdx:endIdx] of worker wk
EdgeSlice(n, cpu, wk) ==
    LET edges == Edges(n)
        edgesPerWorker == (Len(edges) + cpu - 1) \div cpu
        startIdx == wk * edgesPerWorker
        endIdx == Min(startIdx + edgesPerWorker, Len(edges))
    IN {edges[i] : i \in (startIdx + 1)..endIdx}

\* the rows startY..endY-1 of worker wk of the merge and of a
\* line-continuity pass
RowStripe(h, cpu, wk) ==
    LET rowsPerWorker == (h + cpu - 1) \div cpu
        startY == wk * rowsPerWorker
        endY == Min(startY + rowsPerWorker, h)
    IN startY..(endY - 1)

\* the rows of worker wk of applyEdgeAntialiasing (h >= 2)
InnerStripe(h, cpu, wk) ==
    LET rowsPerWorker == (h - 2 + cpu - 1) \div cpu
        startY == 1 + wk * rowsPerWorker
        endY == Min(startY + rowsPerWorker, h - 1)
    IN startY..(endY - 1)

\* the workers a pass spawns: those with a non-empty share
WorkersOf(pass, w, h, cpu) ==
    {wk \in 0..(cpu - 1) :
        CASE pass = "vdeblock" -> EdgeSlice(w, cpu, wk) # {}
          [] pass = "hdeblock" -> EdgeSlice(h, cpu, wk) # {}
          [] pass = "dgaa" -> InnerStripe(h, cpu, wk) # {}
          [] OTHER -> RowStripe(h, cpu, wk) # {}}

isNearSeam(x, y) ==
    \/ x % PatchSize < 2 \/ x % PatchSize >= PatchSize - 2
    \/ y % PatchSize < 2 \/ y % PatchSize >= PatchSize - 2

\* the pixels of a pass that worker wk filters
PixelsOf(pass, w, h, cpu, wk) ==
    CASE pass = "vdeblock" ->
             {<<x, y>> : x \in EdgeSlice(w, cpu, wk), y \in 0..(h - 1)}
      [] pass = "hdeblock" ->
             {<<x, y>> : x \in 0..(w - 1), y \in EdgeSlice(h, cpu, wk)}
      [] pass = "dgaa" ->
             {<<x, y>> : x \in 1..(w - 2), y \in InnerStripe(h, cpu, wk)}
      [] pass = "merge" ->
             {<<x, y>> : x \in 0..(w - 1), y \in RowStripe(h, cpu, wk)}
      [] OTHER ->
             {q \in {<<x, y>> : x \in 0..(w - 1), y \in RowStripe(h, cpu, wk)} :
                 isNearSeam(q[1], q[2])}

\* the pixels read to filter the pixel q
ReadAround(pass, w, h, q) ==
    CASE pass = "vdeblock" -> {<<q[1] + d, q[2]>> : d \in -2..1}
      [] pass = "hdeblock" -> {<<q[1], q[2] + d>> : d \in -2..1}
      [] pass = "dgaa" -> {<<q[1] + dx, q[2] + dy>> : dx \in -1..1, dy \in -1..1}
      [] pass = "merge" -> {q}
      [] OTHER -> {n \in {<<q[1] + dx, q[2] + dy>> : dx \in -3..3, dy \in -3..3} :
                      n[1] >= 0 /\ n[1] < w /\ n[2] >= 0 /\ n[2] < h}

\* the pixels written when the pixel q is filtered
WrittenAround(pass, q) ==
    CASE pass = "vdeblock" -> {<<q[1] - 1, q[2]>>, q}
      [] pass = "hdeblock" -> {<<q[1], q[2] - 1>>, q}
      [] OTHER -> {q}

WorkerReads(pass, w, h, cpu, wk) ==
    {<<wk, SourceOf(pass), n[1], n[2]>> :
        n \in UNION {ReadAround(pass, w, h, q) : q \in PixelsOf(pass, w, h, cpu, wk)}}

WorkerWrites(pass, w, h, cpu, wk) ==
    {<<wk, DestOf(pass), n[1], n[2]>> :
        n \in UNION {WrittenAround(pass, q) : q \in PixelsOf(pass, w, h, cpu, wk)}}

\* a pass that does not wait for its workers
JoinedNone(pass) == TRUE

\* wg.Wait() of a pass
Joined(pass) ==
    \A k \in DOMAIN postWorkers : k[1] = pass => postWorkers[k] = "done"

PostSizes == {<<18, 10>>, <<10, 18>>, <<26, 4>>, <<3, 3>>}

PostInit ==
    /\ \E size \in PostSizes : postWidth = size[1] /\ postHeight = size[2]
    /\ postCpu \in 1..MaxCpu
    /\ postPc = "merge"
    /\ postWorkers = <<>> /\ postOut = ""
    /\ postReads = {} /\ postWrites = {} /\ postLog = <<>>
    /\ RcIdle /\ PermIdle /\ PltIdle /\ SplitIdle /\ CodecIdle
    /\ FmIdle /\ QuantIdle /\ LateIdle

\* a pass begins: its destination is there and its goroutines are spawned
PostBegin ==
    /\ postPc \in {PostPasses[i] : i \in 1..Len(PostPasses)}
    /\ postOut = ""
    /\ postOut' = DestOf(postPc)
    /\ postWorkers' =
          [k \in DOMAIN postWorkers \cup
                 {<<postPc, wk>> :
                     wk \in WorkersOf(postPc, postWidth, postHeight, postCpu)} |->
              IF k \in DOMAIN postWorkers THEN postWorkers[k] ELSE "ready"]
    /\ postLog' = Append(postLog, postPc)
    /\ UNCHANGED <<postPc, postWidth, postHeight, postCpu, postReads,
                   postWrites>>
    /\ PostFrame

\* a spawned goroutine is scheduled
PostWorkerStart(k) ==
    /\ k \in DOMAIN postWorkers
    /\ postWorkers[k] = "ready"
    /\ postWorkers' = [postWorkers EXCEPT ![k] = "running"]
    /\ UNCHANGED <<postPc, postWidth, postHeight, postCpu, postOut, postReads,
                   postWrites, postLog>>
    /\ PostFrame

\* a goroutine has filtered its share: defer wg.Done()
PostWorkerEnd(k) ==
    /\ k \in DOMAIN postWorkers
    /\ postWorkers[k] = "running"
    /\ postWorkers' = [postWorkers EXCEPT ![k] = "done"]
    /\ postReads' = postReads \cup
          WorkerReads(k[1], postWidth, postHeight, postCpu, k[2])
    /\ postWrites' = postWrites \cup
          WorkerWrites(k[1], postWidth, postHeight, postCpu, k[2])
    /\ UNCHANGED <<postPc, postWidth, postHeight, postCpu, postOut, postLog>>
    /\ PostFrame

\* wg.Wait() returns; a filter with a buffer of its own copies it over the
\* image; the next pass, or the PNG output, follows
PostWait ==
    /\ postPc \in {PostPasses[i] : i \in 1..Len(PostPasses)}
    /\ postOut # ""
    /\ Joined(postPc)
    /\ postPc' = PassAfter(postPc)
    /\ postOut' = ""
    /\ postReads' = {} /\ postWrites' = {}
    /\ UNCHANGED <<postWidth, postHeight, postCpu, postWorkers, postLog>>
    /\ PostFrame

PostNext ==
    \/ PostBegin
    \/ \E k \in DOMAIN postWorkers : PostWorkerStart(k)
    \/ \E k \in DOMAIN postWorkers : PostWorkerEnd(k)
    \/ PostWait

SpecPost == PostInit /\ [][PostNext]_vars

\* the pixels of a buffer in a set of accesses
Touched(accesses) == {<<a[2], a[3], a[4]>> : a \in accesses}

PostFilterOrdering ==
    /\ Len(postLog) <= Len(PostPasses)
    /\ \A i \in 1..Len(postLog) : postLog[i] = PostPasses[i]
    /\ postPc = "png" => postLog = PostPasses
    /\ \A a \in DOMAIN postWorkers : \A b \in DOMAIN postWorkers :
          (PassIdx(a[1]) < PassIdx(b[1]) /\ postWorkers[b] # "ready") =>
              postWorkers[a] = "done"

\* a worker of the second line-continuity pass is running after the two
\* workers of each pass before it
PostFilterOrderingWitness ==
    /\ postPc = "lc2"
    /\ postCpu = 2
    /\ postWidth = 18
    /\ <<"lc2", 1>> \in DOMAIN postWorkers
    /\ postWorkers[<<"lc2", 1>>] = "running"
    /\ postWorkers[<<"lc2", 0>>] = "ready"
    /\ <<"vdeblock", 1>> \in DOMAIN postWorkers
    /\ <<"dgaa", 1>> \in DOMAIN postWorkers

(***************************************************************************)
(* core/src/entropy.zig: a FrequencyModel on its own, updated symbol by    *)
(* symbol as encode_safe and decode update it.  fmPrev is the model before *)
(* the last call of update and fmLast the symbol of that call.             *)
(***************************************************************************)
FmMaxSteps == 5

FmSymbols == {0, 128, 255}

\* a run of calls that ends two calls short of MaxFreq
FmRunLen == MaxFreq - 258

\* update(symbol) called k >= 1 times.  The calls are split in two halves,
\* and the model after the first half is computed before the second is
\* entered, only to bound the depth of the evaluation.
RECURSIVE UpdateTimes(_, _, _)
UpdateTimes(m, symbol, k) ==
    IF k = 1 THEN update(m, symbol)
    ELSE LET half == UpdateTimes(m, symbol, k \div 2)
         IN CASE half.total > 0 -> UpdateTimes(half, symbol, k - (k \div 2))

FmInit ==
    /\ fmModel = FrequencyModelInit
    /\ fmPrev = <<>> /\ fmLast = <<>> /\ fmSteps = 0
    /\ RcIdle /\ PermIdle /\ PltIdle /\ SplitIdle /\ CodecIdle
    /\ QuantIdle /\ PostIdle /\ LateIdle

\* model.update(symbol)
FmUpdate(symbol) ==
    /\ fmModel # <<>>
    /\ fmSteps < FmMaxSteps
    /\ fmPrev' = fmModel
    /\ fmModel' = update(fmModel, symbol)
    /\ fmLast' = <<symbol>>
    /\ fmSteps' = fmSteps + 1
    /\ FmFrame

\* a stream that begins with FmRunLen equal bytes: model.update(symbol) that
\* many times
FmUpdateRun(symbol) ==
    /\ fmModel # <<>>
    /\ fmSteps = 0
    /\ LET prev == UpdateTimes(fmModel, symbol, FmRunLen - 1)
       IN /\ fmPrev' = prev
          /\ fmModel' = update(prev, symbol)
    /\ fmLast' = <<symbol>>
    /\ fmSteps' = fmSteps + 1
    /\ FmFrame

FmNext ==
    \/ \E symbol \in FmSymbols : FmUpdate(symbol)
    \/ \E symbol \in FmSymbols : FmUpdateRun(symbol)

SpecFM == FmInit /\ [][FmNext]_vars

\* cum[s] is the sum of counts[j] for j < s, for s in 0..256
PrefixSums(counts) ==
    [s \in 0..256 |-> IF s = 0 THEN 0 ELSE SumCounts(counts, 0, s - 1)]

\* C17: frequency model consistency: after init and any sequence of update
\* calls, halvings included, total is the sum of counts[0..255] and
\* get_range(s).low is the sum of counts[j] for j < s, for every symbol s; the
\* counts are halved exactly in the update that makes total reach 2^14, which
\* sets every counts[j] to (counts[j] >> 1) + 1.
FrequencyModelConsistent ==
    fmModel # <<>> =>
        /\ fmModel.total = SumCounts(fmModel.counts, 0, 255)
        /\ fmModel.total < MaxFreq
        /\ LET cum == PrefixSums(fmModel.counts)
           IN \A s \in Symbols :
                 /\ get_range(fmModel, s).low = cum[s]
                 /\ get_range(fmModel, s).range = fmModel.counts[s]
        /\ fmPrev # <<>> =>
              LET counted == [fmPrev.counts EXCEPT ![fmLast[1]] = @ + 1]
              IN IF fmPrev.total + 1 = MaxFreq
                 THEN \A j \in Symbols :
                         fmModel.counts[j] = (counted[j] \div 2) + 1
                 ELSE /\ fmModel.counts = counted
                      /\ fmModel.total = fmPrev.total + 1

\* the update that made total reach 2^14 has halved the counts, those of the
\* long run included, and the tree answers for the halved counts
FrequencyModelConsistentWitness ==
    /\ fmModel # <<>> /\ fmPrev # <<>>
    /\ fmPrev.total = MaxFreq - 1
    /\ fmLast = <<255>>
    /\ fmPrev.counts[128] = FmRunLen + 1
    /\ fmModel.counts[128] = ((FmRunLen + 1) \div 2) + 1
    /\ fmModel.counts[255] = 2
    /\ get_range(fmModel, 255).low = fmModel.total - 2

\* C18: get_symbol inverts get_range: in every reachable model and for every
\* value in 0..total-1, get_symbol(value) is the one symbol s with
\* cum(s) <= value < cum(s) + counts[s], with low = get_range(s).low and
\* range = counts[s]; the descent never ends above 255, so that the clamp
\* changes nothing.
GetSymbolInvertsGetRange ==
    fmModel # <<>> =>
        \A s \in Symbols :
            LET p == get_range(fmModel, s)
            IN \A value \in p.low..(p.low + p.range - 1) :
                  /\ value < fmModel.total
                  /\ get_symbol(fmModel, value) =
                         [symbol |-> s, low |-> p.low, range |-> p.range]
                  /\ SymbolLoop(fmModel.bit, value, 128, 0, 0)[1] = s

\* the model after a long run of 128 and an update of 255: the values at both
\* ends of the interval of 128 and the last value, which belongs to 255
GetSymbolInvertsGetRangeWitness ==
    /\ fmModel # <<>>
    /\ fmSteps = 2
    /\ fmModel.counts[128] = FmRunLen + 1
    /\ fmModel.total = MaxFreq - 1
    /\ get_symbol(fmModel, 128).symbol = 128
    /\ get_symbol(fmModel, 128 + FmRunLen).symbol = 128
    /\ get_symbol(fmModel, fmModel.total - 1).symbol = 255
    /\ get_symbol(fmModel, fmModel.total - 2).symbol = 255

(***************************************************************************)
(* core/src/entropy.zig: the bytes of the range coder against the values   *)
(* pushed to write_byte_carry (rcPushed) and the bytes the decoder asked   *)
(* for (rcReads).                                                          *)
(***************************************************************************)
\* the carry out of position i when the values pushed[i..] are added up as
\* base-256 digits
RECURSIVE CarryOut(_, _)
CarryOut(pushed, i) ==
    IF i > Len(pushed) THEN 0
    ELSE (pushed[i] + CarryOut(pushed, i + 1)) \div 256

\* the base-256 digits of the pushed values, every carry added into the
\* positions before it
ExactDigits(pushed) ==
    [i \in 1..Len(pushed) |-> (pushed[i] + CarryOut(pushed, i + 1)) % 256]

\* the pushed values but the last
AllButLast(pushed) == SubSeq(pushed, 1, Len(pushed) - 1)

\* C19: carry discipline refines exact arithmetic: after the encoding of a
\* symbol sequence and finish, the output bytes are the base-256 digits of the
\* values pushed to write_byte_carry, the last one left out, with every carry
\* (a pushed value above 0xFF) added into the bytes before it, through runs of
\* 0xFF; no pushed byte is lost, duplicated or reordered.
CarryDiscipline ==
    /\ (rcPc = "encode" /\ enc.started) =>
          /\ enc.buffer \o <<enc.cache>> \o Repeat(255, enc.ff_count)
                = ExactDigits(rcPushed)
          /\ CarryOut(rcPushed, 1) = 0
    /\ rcPc \in {"compressed", "decode", "done"} =>
          /\ Len(rcPushed) >= 5
          /\ rcData = ExactDigits(AllButLast(rcPushed))
          /\ CarryOut(rcPushed, 1) = 0
          /\ rcPushed[Len(rcPushed)] = 0

\* an output in which a carry went through a pending run of 0xFF: a value
\* above 0xFF was pushed right after 0xFF
CarryDisciplineWitness ==
    /\ rcPc = "compressed"
    /\ \E i \in 2..(Len(rcPushed) - 1) :
          /\ rcPushed[i] = 255
          /\ rcPushed[i + 1] > 255
          /\ rcData[i] = 0
          /\ rcData[i - 1] = (rcPushed[i - 1] + 1) % 256

\* C20: exact consumption: the output of N >= 1 encoded symbols and finish
\* has 4 bytes and one byte for every renormalisation shift of the encoding;
\* the decoder of N symbols reads exactly that many bytes, none of them a 0
\* standing for a missing byte and none left unread; after finish no run of
\* 0xFF is pending.
ExactConsumption ==
    /\ (rcPc \in {"compressed", "decode", "done"} /\ Len(rcInput) >= 1) =>
          /\ Len(rcData) = 4 + (Len(rcPushed) - 5)
          /\ enc.ff_count = 0
    /\ (rcPc \in {"decode", "done"} /\ Len(rcInput) >= 1) =>
          /\ rcReads = dec.cursor
          /\ rcReads <= Len(rcData)
    /\ (rcPc = "done" /\ Len(rcInput) >= 1) => rcReads = Len(rcData)

\* MaxLen symbols were decoded from an output longer than the four bytes of
\* init, all of it read
ExactConsumptionWitness ==
    /\ rcPc = "done"
    /\ Len(rcInput) = MaxLen
    /\ Len(rcData) > 4
    /\ Len(rcPushed) = Len(rcData) + 1
    /\ dec.cursor = Len(rcData)
    /\ \E i \in 1..Len(rcPushed) : rcPushed[i] = 255

(***************************************************************************)
(* The angle of one patch on its way from gap_compress_patch to            *)
(* gap_decompress_patch.  A float32 angle is <<sign, m, e>>, standing for  *)
(* sign * m * 2^e; the float32 operations round to 24 bits, to nearest.    *)
(* The float64 arithmetic of gapEncodePlane, of 53 bits, is computed       *)
(* without rounding on multiples of 2^-26, 2 * math.Pi being 421657428 of  *)
(* them.                                                                   *)
(***************************************************************************)
\* 2.0 * math.pi, math.Pi and 255.0 / two_pi as float32 values
TwoPi32 == <<13176795, -21>>

Pi32 == <<13176795, -22>>

Factor32 == <<5319493, -17>>

\* 2 * math.Pi in multiples of 2^-26
TwoPi64 == 421657428

RECURSIVE BitLen(_)
BitLen(h) == IF h = 0 THEN 0 ELSE 1 + BitLen(h \div 2)

\* the float32 product of two float32 values >= 0 with significands below
\* 2^24: the exact product is H * 2^24 + L
FltMulWide(a, b) ==
    LET a1 == a[1] \div 4096
        a0 == a[1] % 4096
        b1 == b[1] \div 4096
        b0 == b[1] % 4096
        mid == a1 * b0 + a0 * b1
        low0 == a0 * b0 + (mid % 4096) * 4096
        L == low0 % 16777216
        H == a1 * b1 + (mid \div 4096) + (low0 \div 16777216)
        hb == BitLen(H)
        q == H * (2 ^ (24 - hb)) + (L \div (2 ^ hb))
        rem == L % (2 ^ hb)
        half == 2 ^ (hb - 1)
        up == rem > half \/ (rem = half /\ q % 2 = 1)
    IN IF H = 0 THEN FltReduce(L, a[2] + b[2])
       ELSE FltReduce(IF up THEN q + 1 ELSE q, a[2] + b[2] + hb)

\* the float32 difference a - b of two float32 values a >= b >= 0 whose
\* exponents are at least -28
FltSub(a, b) ==
    LET ec == Min(a[2], b[2])
    IN FltRound(a[1] * (2 ^ (a[2] - ec)) - b[1] * (2 ^ (b[2] - ec)), ec)

\* get_gradient_map_ptr: the index of the table row of an angle in
\* [-two_pi, two_pi]
get_gradient_map_ptr(angle) ==
    LET a == <<angle[2], angle[3]>>
        raised == IF angle[1] < 0 /\ angle[2] > 0 THEN FltSub(TwoPi32, a) ELSE a
        norm_angle == IF FltLeq(TwoPi32, raised) THEN FltSub(raised, TwoPi32)
                      ELSE raised
        fIdx == FltMulWide(norm_angle, Factor32)
    IN Min(FltTrunc(fIdx), 255)

\* floor(255 * n / d) for 0 <= n <= d < 2^29, bit by bit of 255
RECURSIVE Scale255(_, _, _, _, _)
Scale255(n, d, bits, q, r) ==
    IF bits = 0 THEN q
    ELSE LET q2 == 2 * q + ((2 * r) \div d)
             r2 == (2 * r) % d
         IN Scale255(n, d, bits - 1, q2 + ((r2 + n) \div d), (r2 + n) % d)

\* normAngle := float64(angle); for normAngle < 0 { normAngle += 2 * math.Pi };
\* byteAngle := uint8((normAngle / (2 * math.Pi)) * 255.0), for an angle that
\* is a multiple of 2^-26
byteAngleOf(angle) ==
    LET n == angle[2] * (2 ^ (angle[3] + 26))
        normAngle == IF angle[1] < 0 /\ n > 0 THEN TwoPi64 - n ELSE n
    IN Scale255(normAngle, TwoPi64, 8, 0, 0) % 256

\* angle := float32(byteAngle) / 255.0 * 2.0 * math.Pi
angleOfByte(byteAngle) ==
    LET q == FltDiv(byteAngle, 255)
        p == FltMulWide(<<q[1], q[2] + 1>>, Pi32)
    IN <<1, p[1], p[2]>>

\* float32 angles between -pi and pi: odd multiples of the powers of two from
\* 2^-26 on, and two angles next to the turn of a table row
AngleSamples ==
    {a \in {<<sign, m, e>> : sign \in {1, -1}, m \in {1, 3, 5}, e \in -26..-1} :
        FltLeq(<<a[2], a[3]>>, Pi32)}
    \cup {<<1, 0, 0>>, <<-1, 6562561, -21>>, <<1, 13176795, -22>>}

AngInit ==
    /\ angPc = "analyzed"
    /\ angAngle \in AngleSamples
    /\ angEncRow = 0 /\ angByte = 0 /\ angDecAngle = <<>> /\ angDecRow = 0
    /\ AngOthersIdle

\* GapCompressPatch: gap_compress_patch permutes the patch with the row of
\* the angle
AngCompress ==
    /\ angPc = "analyzed"
    /\ angEncRow' = get_gradient_map_ptr(angAngle)
    /\ angPc' = "compressed"
    /\ UNCHANGED <<angAngle, angByte, angDecAngle, angDecRow>>
    /\ AngFrame

\* gapEncodePlane: Quantize Angle
AngQuantize ==
    /\ angPc = "compressed"
    /\ angByte' = byteAngleOf(angAngle)
    /\ angPc' = "stored"
    /\ UNCHANGED <<angAngle, angEncRow, angDecAngle, angDecRow>>
    /\ AngFrame

\* gapDecodePlaneSplit: byteAngle := angles[ptrA]; allAngles[pIdx] = angle
AngParse ==
    /\ angPc = "stored"
    /\ angDecAngle' = angleOfByte(angByte)
    /\ angPc' = "parsed"
    /\ UNCHANGED <<angAngle, angEncRow, angByte, angDecRow>>
    /\ AngFrame

\* gap_decompress_patch scatters with the row of the angle it is given
AngDecompress ==
    /\ angPc = "parsed"
    /\ angDecRow' = get_gradient_map_ptr(angDecAngle)
    /\ angPc' = "done"
    /\ UNCHANGED <<angAngle, angEncRow, angByte, angDecAngle>>
    /\ AngFrame

AngNext == AngCompress \/ AngQuantize \/ AngParse \/ AngDecompress

SpecAngle == AngInit /\ [][AngNext]_vars

\* C21: permutation round-trip across encode and decode: for every patch the
\* table row the decoder selects from the stored Angles byte is the row the
\* encoder permuted the patch with, so that the decoder's scatter undoes the
\* encoder's gather.
PermutationRowAgreement ==
    angPc = "done" => angDecRow = angEncRow

(***************************************************************************)
(* engine/decoder.go: DeblockImageParallel on pixel values.  img.Pix is a  *)
(* function from <<x, y>> to <<R, G, B, A>>.  The seams of a pass touch    *)
(* disjoint pixels, so the pass is computed seam by seam.                  *)
(***************************************************************************)
Beta == 12

NormThreshold == 30

HighThreshold == 45

\* max3 of the absolute channel differences
diff(c1, c2) ==
    Max(Abs(c1[1] - c2[1]), Max(Abs(c1[2] - c2[2]), Abs(c1[3] - c2[3])))

\* smooth, for one channel: <<val_p1, val_q0>>
smooth(v_p2, v_p1, v_q0, v_q1) ==
    <<((v_p2 + 2 * v_p1 + v_q0 + 2) \div 4) % 256,
      ((v_p1 + 2 * v_q0 + v_q1 + 2) \div 4) % 256>>

\* the threshold of a seam position, the flat one taken always
ThresholdAlwaysHigh(flatP, flatQ) == HighThreshold

\* threshold := NormThreshold; if flatP && flatQ { threshold = HighThreshold }
Threshold(flatP, flatQ) ==
    IF flatP /\ flatQ THEN HighThreshold ELSE NormThreshold

\* the pixel at distance d from the seam c in the row or column k of a pass
SeamPixel(pass, c, k, d) == IF pass = "v" THEN <<c + d, k>> ELSE <<k, c + d>>

\* the body of the two inner loops for one seam position: the image with
\* p1 and q0 of the seam c in line k smoothed, if the seam is faint enough
FilterAt(img, pass, c, k) ==
    LET p2 == img[SeamPixel(pass, c, k, -2)]
        p1 == img[SeamPixel(pass, c, k, -1)]
        q0 == img[SeamPixel(pass, c, k, 0)]
        q1 == img[SeamPixel(pass, c, k, 1)]
        flatP == diff(p2, p1) < Beta
        flatQ == diff(q0, q1) < Beta
        r == smooth(p2[1], p1[1], q0[1], q1[1])
        g == smooth(p2[2], p1[2], q0[2], q1[2])
        b == smooth(p2[3], p1[3], q0[3], q1[3])
    IN IF diff(p1, q0) < Threshold(flatP, flatQ)
       THEN [img EXCEPT ![SeamPixel(pass, c, k, -1)] = <<r[1], g[1], b[1], @[4]>>,
                        ![SeamPixel(pass, c, k, 0)] = <<r[2], g[2], b[2], @[4]>>]
       ELSE img

\* for y := 0; y < h; y++ (for x := 0; x < w; x++): the seam c filtered in
\* the lines k, ..., n - 1.  The guard holds always; it makes the image
\* after a line be computed before the next line is entered.
RECURSIVE FilterSeam(_, _, _, _, _)
FilterSeam(img, pass, c, k, n) ==
    IF k >= n THEN img
    ELSE LET line == FilterAt(img, pass, c, k)
         IN CASE DOMAIN line = DOMAIN img -> FilterSeam(line, pass, c, k + 1, n)

\* a pass over its seams 8, 16, ... below size - 1, each over n lines
RECURSIVE FilterPass(_, _, _, _, _)
FilterPass(img, pass, c, size, n) ==
    IF c >= size - 1 THEN img
    ELSE FilterPass(FilterSeam(img, pass, c, 0, n), pass, c + PatchSize, size, n)

DbLevels == <<0, 11, 30, 41, 45, 56>>

DbSizes == {<<10, 10>>, <<9, 9>>}

\* an image whose colour changes along one axis around position 8: R takes
\* four levels, G the same levels in the reverse order, B and A are 255
DbImage(w, h, axis, l) ==
    LET step(t) == IF t <= 6 THEN 1 ELSE IF t >= 9 THEN 4 ELSE t - 5
        at(q) == step(IF axis = "x" THEN q[1] ELSE q[2])
    IN [q \in (0..(w - 1)) \X (0..(h - 1)) |->
           <<DbLevels[l[at(q)]], DbLevels[l[5 - at(q)]], 255, 255>>]

DbInit ==
    /\ dbPc = "start"
    /\ \E size \in DbSizes : dbWidth = size[1] /\ dbHeight = size[2]
    /\ \E axis \in {"x", "y"} :
          \E l \in [1..4 -> 1..Len(DbLevels)] :
              dbImg = DbImage(dbWidth, dbHeight, axis, l)
    /\ dbBefore = dbImg
    /\ DbOthersIdle

\* Vertical edges, until wg.Wait() returns
DbVertical ==
    /\ dbPc = "start"
    /\ dbBefore' = dbImg
    /\ dbImg' = FilterPass(dbImg, "v", PatchSize, dbWidth, dbHeight)
    /\ dbPc' = "vertical"
    /\ UNCHANGED <<dbWidth, dbHeight>>
    /\ DbFrame

\* Horizontal edges, until wg.Wait() returns
DbHorizontal ==
    /\ dbPc = "vertical"
    /\ dbBefore' = dbImg
    /\ dbImg' = FilterPass(dbImg, "h", PatchSize, dbHeight, dbWidth)
    /\ dbPc' = "horizontal"
    /\ UNCHANGED <<dbWidth, dbHeight>>
    /\ DbFrame

DbNext == DbVertical \/ DbHorizontal

SpecDeblock == DbInit /\ [][DbNext]_vars

\* the coordinate of the pixel q across the seams of the pass just run, and
\* along them
DbAcross(q) == IF dbPc = "vertical" THEN q[1] ELSE q[2]

DbSize == IF dbPc = "vertical" THEN dbWidth ELSE dbHeight

\* the seam next to the pixel q in the pass just run, 0 if there is none
DbSeamOf(q) ==
    LET t == DbAcross(q)
        c == IF t % 8 = 7 THEN t + 1 ELSE t
    IN IF c % 8 = 0 /\ c >= 8 /\ c < DbSize - 1 THEN c ELSE 0

\* the pixel at distance d from the seam c in the line of q, before the pass
DbNear(q, c, d) ==
    dbBefore[IF dbPc = "vertical" THEN <<c + d, q[2]>> ELSE <<q[1], c + d>>]

\* C22: deblocking frame and trigger: a pass of DeblockImageParallel changes
\* only the R, G, B bytes of the two pixels next to a seam (p1 at c - 1 and
\* q0 at c, for the seams c = 8, 16, ... below size - 1, in x and then in y),
\* and only when the largest channel difference between p1 and q0 is below
\* 30, or below 45 when both sides are flat (p2 against p1 and q0 against q1
\* below 12); every other pixel and every alpha byte stay as they were, and
\* every new value is within 0..255.
DeblockFrame ==
    dbPc \in {"vertical", "horizontal"} =>
        \A q \in DOMAIN dbImg :
            /\ dbImg[q][4] = dbBefore[q][4]
            /\ \A ch \in 1..3 : dbImg[q][ch] \in 0..255
            /\ dbImg[q] # dbBefore[q] =>
                  LET c == DbSeamOf(q)
                  IN /\ c # 0
                     /\ LET d == diff(DbNear(q, c, -1), DbNear(q, c, 0))
                            flat == /\ diff(DbNear(q, c, -2), DbNear(q, c, -1)) < 12
                                    /\ diff(DbNear(q, c, 0), DbNear(q, c, 1)) < 12
                        IN d < 30 \/ (flat /\ d < 45)

\* a horizontal pass has smoothed a seam of contrast 41 between two flat
\* sides, and left the pixels away from the seam alone
DeblockFrameWitness ==
    /\ dbPc = "horizontal"
    /\ dbHeight = 10
    /\ dbBefore[<<0, 6>>][1] = 0 /\ dbBefore[<<0, 7>>][1] = 0
    /\ dbBefore[<<0, 8>>][1] = 41 /\ dbBefore[<<0, 9>>][1] = 41
    /\ dbImg[<<0, 7>>][1] = 10 /\ dbImg[<<0, 8>>][1] = 31
    /\ dbImg[<<0, 6>>] = dbBefore[<<0, 6>>]
    /\ dbImg[<<0, 9>>] = dbBefore[<<0, 9>>]

\* ---------------------------------------------------------------------
\* The geometry of a plane in EncodeImage and in DecodeImage
\* ---------------------------------------------------------------------

\* the largest width and height of an image
MaxSide == 17

\* isSubsampled := (header.Flags & FlagSubsampled) != 0
IsSubsampled(header) == (header.Flags \div 4) % 2 = 1

\* pWidth, pHeight rounded up instead of down
PlaneSizeRoundedUp(header, pIdx) ==
    IF IsSubsampled(header) /\ pIdx \in {1, 2}
    THEN <<(header.Width + 1) \div 2, (header.Height + 1) \div 2>>
    ELSE <<header.Width, header.Height>>

\* pWidth, pHeight := width, height; if isSubsampled && (pIdx == 1 ||
\* pIdx == 2) { pWidth /= 2; pHeight /= 2 }
PlaneSize(header, pIdx) ==
    IF IsSubsampled(header) /\ pIdx \in {1, 2}
    THEN <<header.Width \div 2, header.Height \div 2>>
    ELSE <<header.Width, header.Height>>

\* the cursors ptrA, ptrC, ptrMax, ptrIdx, ptrVal of gapDecodePlaneSplit
\* after its sequential stage, p patches being parsed already
RECURSIVE ParseCursors(_, _, _, _, _)
ParseCursors(streams, width, height, p, ptr) ==
    IF \/ p >= NumPatches(width, height)
       \/ ptr.a >= Len(streams.angles)
       \/ ptr.c >= Len(streams.counts)
    THEN ptr
    ELSE LET hasMax == ptr.max + 4 <= Len(streams.maxVals)
             read == ParseBins(streams.indices, streams.values, ptr.idx, ptr.val,
                               streams.counts[ptr.c + 1], <<1, 0>>)
         IN CASE read.ptrIdx >= 0 ->
                ParseCursors(streams, width, height, p + 1,
                             [a |-> ptr.a + 1, c |-> ptr.c + 1,
                              max |-> IF hasMax THEN ptr.max + 4 ELSE ptr.max,
                              idx |-> read.ptrIdx, val |-> read.ptrVal])

\* what GapCompressPatch gave: no coefficient; three bins up to the last
GeomSamples ==
    {[angle |-> 0, coeffs |-> CoeffsWith(<<>>)],
     [angle |-> 100,
      coeffs |-> CoeffsWith(5 :> <<-127, 3>> @@ 17 :> <<1, -1>> @@ 63 :> <<0, 127>>)]}

GeomInit ==
    /\ gmPc = "image"
    /\ \E w \in 1..MaxSide, h \in 1..MaxSide :
          gmHeader = [Width |-> w, Height |-> h, Flags |-> 14]
    /\ gmIdx \in 0..2
    /\ gmEnc = <<>>
    /\ gmX = 0
    /\ gmY = 0
    /\ gmStreams = EmptyStreams
    /\ gmDec = <<>>
    /\ GeomOthersIdle

\* EncodeImage: planes := {yPlane, cbSmall, crSmall}; p := planes[idx];
\* pBounds.Dx(), pBounds.Dy() are the width and height gapEncodePlane gets
GeomPlane ==
    /\ gmPc = "image"
    /\ LET img == [width |-> gmHeader.Width, height |-> gmHeader.Height]
       IN gmEnc' = <<PlaneWidth(img, gmIdx), PlaneHeight(img, gmIdx)>>
    /\ gmPc' = "encode"
    /\ UNCHANGED <<gmHeader, gmIdx, gmX, gmY, gmStreams, gmDec>>
    /\ GeomFrame

\* gapEncodePlane, one iteration of the loops over y and x
GeomEncodePatch(sample) ==
    /\ gmPc = "encode"
    /\ gmY < Padded(gmEnc[2])
    /\ gmX < Padded(gmEnc[1])
    /\ gmStreams' = AppendPatch(gmStreams,
                                QuantizePatch(sample.angle, sample.coeffs))
    /\ IF gmX + 8 < Padded(gmEnc[1])
       THEN gmX' = gmX + 8 /\ gmY' = gmY
       ELSE gmX' = 0 /\ gmY' = gmY + 8
    /\ UNCHANGED <<gmPc, gmHeader, gmIdx, gmEnc, gmDec>>
    /\ GeomFrame

\* the loops of gapEncodePlane are over: the streams are returned
GeomReturn ==
    /\ gmPc = "encode"
    /\ ~(gmY < Padded(gmEnc[2]) /\ gmX < Padded(gmEnc[1]))
    /\ gmPc' = "decode"
    /\ UNCHANGED <<gmHeader, gmIdx, gmEnc, gmX, gmY, gmStreams, gmDec>>
    /\ GeomFrame

\* DecodeImage for plane pIdx: pWidth and pHeight from the header, then the
\* sequential stage of gapDecodePlaneSplit on the five streams
GeomDecode ==
    /\ gmPc = "decode"
    /\ LET size == PlaneSize(gmHeader, gmIdx)
       IN gmDec' = [width |-> size[1], height |-> size[2],
                    ptr |-> ParseCursors(gmStreams, size[1], size[2], 0,
                               [a |-> 0, c |-> 0, max |-> 0, idx |-> 0, val |-> 0])]
    /\ gmPc' = "done"
    /\ UNCHANGED <<gmHeader, gmIdx, gmEnc, gmX, gmY, gmStreams>>
    /\ GeomFrame

GeomNext ==
    \/ GeomPlane
    \/ \E sample \in GeomSamples : GeomEncodePatch(sample)
    \/ GeomReturn
    \/ GeomDecode

SpecGeom == GeomInit /\ [][GeomNext]_vars

\* C23: plane geometry agreement: for every header with W, H >= 1 and the
\* Subsampled flag, the encoder's plane is W x H for Y and W/2 x H/2 (integer
\* division) for Cb and Cr, the decoder computes the same width, height and
\* patch count, and after the decoder has walked the patch grid of the
\* encoder's streams each of its five cursors equals the length of its stream.
PlaneGeometryAgreement ==
    /\ gmPc \in {"encode", "decode", "done"} =>
          gmEnc = IF gmIdx = 0
                  THEN <<gmHeader.Width, gmHeader.Height>>
                  ELSE <<gmHeader.Width \div 2, gmHeader.Height \div 2>>
    /\ gmPc = "done" =>
          /\ <<gmDec.width, gmDec.height>> = gmEnc
          /\ NumPatches(gmDec.width, gmDec.height) = Len(gmStreams.angles)
          /\ gmDec.ptr.a = Len(gmStreams.angles)
          /\ gmDec.ptr.c = Len(gmStreams.counts)
          /\ gmDec.ptr.max = Len(gmStreams.maxVals)
          /\ gmDec.ptr.idx = Len(gmStreams.indices)
          /\ gmDec.ptr.val = Len(gmStreams.values)

\* the decoder walked the Cb plane of a 17 x 9 image, 8 x 4 and of one patch
\* with three bins, where rounding the halves up would give two patches
PlaneGeometryAgreementWitness ==
    /\ gmPc = "done"
    /\ gmHeader.Width = 17 /\ gmHeader.Height = 9
    /\ gmIdx = 1
    /\ gmDec.width = 8 /\ gmDec.height = 4
    /\ gmDec.ptr = [a |-> 1, c |-> 1, max |-> 4, idx |-> 3, val |-> 6]

\* ---------------------------------------------------------------------
\* gap_decompress_data on an arbitrary input
\* ---------------------------------------------------------------------

\* the longest input
MaxIn == 5

\* the largest output_len
MaxOut == 3

\* the bytes of an input: the ends of the range, and one in between
RdBytes == {0, 1, 128, 255}

RdInit ==
    /\ rdPc = "start"
    /\ rdInput \in SeqsUpTo(RdBytes, MaxIn)
    /\ rdN \in 0..MaxOut
    /\ rdDec = RcIdleDecoder
    /\ rdModel = FrequencyModelInit
    /\ rdOut = <<>>
    /\ rdLast = <<>>
    /\ RdOthersIdle

\* RangeDecoder.init(input) and FrequencyModel.init()
RdStart ==
    /\ rdPc = "start"
    /\ rdDec' = RangeDecoderInit(rdInput)
    /\ rdModel' = FrequencyModelInit
    /\ rdPc' = "decode"
    /\ UNCHANGED <<rdInput, rdN, rdOut, rdLast>>
    /\ RdFrame

\* output[i] = decoder.decode(&model).  The division by model.total, the
\* division by r_div and the checked subtraction code -= info.low * r_div
\* trap when they are not defined.
RdDecode ==
    /\ rdPc = "decode"
    /\ Len(rdOut) < rdN
    /\ IF rdModel.total = 0 \/ WDiv(rdDec.range, rdModel.total) = 0
       THEN /\ rdPc' = "division by zero"
            /\ UNCHANGED <<rdDec, rdModel, rdOut, rdLast>>
       ELSE LET r_div == WDiv(rdDec.range, rdModel.total)
                value == WDiv(rdDec.code, r_div)
                info == get_symbol(rdModel, value)
            IN IF WLess(rdDec.code, WMul(info.low, r_div))
               THEN /\ rdPc' = "integer overflow"
                    /\ UNCHANGED <<rdDec, rdModel, rdOut, rdLast>>
               ELSE LET r == decode(rdDec, rdInput, rdModel)
                    IN /\ rdDec' = r.dec
                       /\ rdModel' = r.model
                       /\ rdOut' = Append(rdOut, r.symbol)
                       /\ rdLast' = [r_div |-> r_div, value |-> value,
                                     total |-> rdModel.total,
                                     shifts |-> RenormReads(
                                         DecNarrow(rdDec, rdModel).dec.range)]
                       /\ rdPc' = "decode"
    /\ UNCHANGED <<rdInput, rdN>>
    /\ RdFrame

\* the loop over 0..output_len is over
RdReturn ==
    /\ rdPc = "decode"
    /\ Len(rdOut) = rdN
    /\ rdPc' = "done"
    /\ UNCHANGED <<rdInput, rdN, rdDec, rdModel, rdOut, rdLast>>
    /\ RdFrame

RdNext ==
    \/ RdStart
    \/ RdDecode
    \/ RdReturn

SpecRD == RdInit /\ [][RdNext]_vars

\* C24: the range decoder is total on arbitrary input: for any input bytes,
\* the empty input included, and any output_len, gap_decompress_data runs to
\* its end without a division by zero and without an underflow of code, the
\* cursor never exceeds the input's length, the symbols written are bytes,
\* exactly output_len of them at the end, and they are the symbols decoded
\* from the input followed by zero bytes.
DecoderTotal ==
    /\ rdPc \in {"start", "decode", "done"}
    /\ rdPc # "start" =>
          /\ rdDec.cursor \in 0..Len(rdInput)
          /\ Len(rdOut) <= rdN
          /\ \A i \in 1..Len(rdOut) : rdOut[i] \in Symbols
    /\ rdPc = "done" =>
          /\ Len(rdOut) = rdN
          /\ rdOut = gap_decompress_data(rdInput \o Repeat(0, 4 + 2 * rdN), rdN)

\* three symbols were decoded from the three bytes 255 255 255: the value
\* looked up was beyond the model's total, and bytes past the end were read
DecoderTotalWitness ==
    /\ rdPc = "done"
    /\ rdInput = <<255, 255, 255>>
    /\ rdN = 3
    /\ Len(rdOut) = 3
    /\ rdDec.cursor = 3
    /\ rdLast.value >= rdLast.total

\* ---------------------------------------------------------------------
\* The renormalisation loops of encode_safe and decode, over inputs with a
\* run long enough for the counts to be halved
\* ---------------------------------------------------------------------

\* the most bytes after the run
MaxTail == 3

RnSymbols == {0, 255}

\* the symbol of the run
RnRunSymbols == {255}

WMin(a, b) == IF WLess(b, a) THEN b ELSE a

WMax(a, b) == IF WLess(a, b) THEN b ELSE a

\* the extremes over no step
NoStep ==
    [r_div |-> Top, narrow |-> <<W16 - 1, W16 - 1>>, shifts |-> 0,
     lo |-> <<W16 - 1, W16 - 1>>, hi |-> <<0, 0>>, total |-> 0]

\* the extremes over the steps of w and a step with r_div, the range
\* narrow before the loop, and the range after it
Extremes(w, r_div, total, narrow, range) ==
    [r_div |-> Min(w.r_div, r_div),
     narrow |-> WMin(w.narrow, narrow),
     shifts |-> Max(w.shifts, RenormReads(narrow)),
     lo |-> WMin(w.lo, range),
     hi |-> WMax(w.hi, range),
     total |-> Max(w.total, total)]

\* encode_safe(model, symbol).  With a range of 0 the loop
\* while (self.range < (1 << 24)) never ends.
EncStep(st, symbol) ==
    IF st.hung THEN st
    ELSE LET r_div == WDiv(st.coder.range, st.model.total)
             n == EncNarrow(st.coder, st.model, symbol)
         IN IF n.range = <<0, 0>>
            THEN [st EXCEPT !.hung = TRUE, !.worst.narrow = <<0, 0>>]
            ELSE LET e == EncRenorm(n)
                 IN [coder |-> e, model |-> update(st.model, symbol),
                     worst |-> Extremes(st.worst, r_div, st.model.total,
                                        n.range, e.range),
                     hung |-> FALSE]

\* decode(model)
DecStep(st, data) ==
    IF st.hung THEN st
    ELSE LET r_div == WDiv(st.coder.range, st.model.total)
             n == DecNarrow(st.coder, st.model)
         IN IF n.dec.range = <<0, 0>>
            THEN [st EXCEPT !.hung = TRUE, !.worst.narrow = <<0, 0>>]
            ELSE LET d == DecRenorm(n.dec, data)
                 IN [coder |-> d, model |-> update(st.model, n.symbol),
                     worst |-> Extremes(st.worst, r_div, st.model.total,
                                        n.dec.range, d.range),
                     hung |-> FALSE]

\* k >= 1 calls of encode_safe with the same symbol.  The calls are split
\* in two halves, and the first half is computed before the second is
\* entered, only to bound the depth of the evaluation.
RECURSIVE EncTimes(_, _, _)
EncTimes(st, symbol, k) ==
    IF k = 1 THEN EncStep(st, symbol)
    ELSE LET half == EncTimes(st, symbol, k \div 2)
         IN CASE half.worst.total > 0 -> EncTimes(half, symbol, k - (k \div 2))

\* k >= 1 calls of decode
RECURSIVE DecTimes(_, _, _)
DecTimes(st, data, k) ==
    IF k = 1 THEN DecStep(st, data)
    ELSE LET half == DecTimes(st, data, k \div 2)
         IN CASE half.worst.total > 0 -> DecTimes(half, data, k - (k \div 2))

RnInit ==
    /\ \E symbol \in RnRunSymbols, run \in {0, FmRunLen},
          tail \in SeqsUpTo(RnSymbols, MaxTail) :
          /\ run + Len(tail) > 0
          /\ rnInput = [symbol |-> symbol, run |-> run, tail |-> tail]
          /\ rnPc = IF run > 0 THEN "run" ELSE "encode"
    /\ rnPos = 0
    /\ rnEnc = [coder |-> RangeEncoderInit, model |-> FrequencyModelInit,
                worst |-> NoStep, hung |-> FALSE]
    /\ rnData = <<>>
    /\ rnDec = [coder |-> RcIdleDecoder, model |-> FrequencyModelInit,
                worst |-> NoStep, hung |-> FALSE]
    /\ rnCount = 0
    /\ RnOthersIdle

\* gap_compress_data over the run with which the input begins
RnEncodeRun ==
    /\ rnPc = "run"
    /\ rnEnc' = EncTimes(rnEnc, rnInput.symbol, rnInput.run)
    /\ rnPc' = "encode"
    /\ UNCHANGED <<rnInput, rnPos, rnData, rnDec, rnCount>>
    /\ RnFrame

\* gap_compress_data: encoder.encode_safe(&model, byte)
RnEncodeStep ==
    /\ rnPc = "encode"
    /\ ~rnEnc.hung
    /\ rnPos < Len(rnInput.tail)
    /\ rnEnc' = EncStep(rnEnc, rnInput.tail[rnPos + 1])
    /\ rnPos' = rnPos + 1
    /\ UNCHANGED <<rnPc, rnInput, rnData, rnDec, rnCount>>
    /\ RnFrame

\* encoder.finish(), the capacity check and the copy to the output; then
\* RangeDecoder.init on the compressed bytes
RnFinish ==
    /\ rnPc = "encode"
    /\ ~rnEnc.hung
    /\ rnPos = Len(rnInput.tail)
    /\ LET compressed == finish(rnEnc.coder).buffer
       IN IF Len(compressed) > rnInput.run + Len(rnInput.tail) + 1024
          THEN rnPc' = "nil" /\ UNCHANGED <<rnData, rnDec>>
          ELSE /\ rnData' = compressed
               /\ rnDec' = [rnDec EXCEPT !.coder = RangeDecoderInit(compressed)]
               /\ rnPc' = IF rnInput.run > 0 THEN "decrun" ELSE "decode"
    /\ UNCHANGED <<rnInput, rnPos, rnEnc, rnCount>>
    /\ RnFrame

\* gap_decompress_data over the symbols of the run
RnDecodeRun ==
    /\ rnPc = "decrun"
    /\ rnDec' = DecTimes(rnDec, rnData, rnInput.run)
    /\ rnCount' = rnInput.run
    /\ rnPc' = "decode"
    /\ UNCHANGED <<rnInput, rnPos, rnEnc, rnData>>
    /\ RnFrame

\* gap_decompress_data: output[i] = decoder.decode(&model)
RnDecodeStep ==
    /\ rnPc = "decode"
    /\ ~rnDec.hung
    /\ rnCount < rnInput.run + Len(rnInput.tail)
    /\ rnDec' = DecStep(rnDec, rnData)
    /\ rnCount' = rnCount + 1
    /\ UNCHANGED <<rnPc, rnInput, rnPos, rnEnc, rnData>>
    /\ RnFrame

RnNext ==
    \/ RnEncodeRun
    \/ RnEncodeStep
    \/ RnFinish
    \/ RnDecodeRun
    \/ RnDecodeStep

SpecRenorm == RnInit /\ [][RnNext]_vars

\* the model and the steps of one coder are as C25 says
RenormOk(st) ==
    /\ \A j \in Symbols : st.model.counts[j] >= 1
    /\ st.model.total >= 256 /\ st.model.total < MaxFreq
    /\ ~st.hung
    /\ st.worst.total < MaxFreq
    /\ st.worst.r_div >= 1
    /\ st.worst.narrow # <<0, 0>>
    /\ st.worst.shifts <= 2
    /\ st.worst.total > 0 =>
          /\ ~WLess(st.worst.lo, WOf(Top))
          /\ st.worst.hi[1] < W16
    /\ ~WLess(st.coder.range, WOf(Top)) \/ st.coder = RcIdleDecoder
    /\ st.coder.range[1] < W16

\* C25: renormalisation always terminates: after any sequence of updates
\* every counts[j] >= 1 and 256 <= total < 2^14, so that in every step of
\* encode_safe and of decode r_div = range / total >= 1, the new range is
\* not 0, the renormalisation loop ends after at most two shifts, and
\* 2^24 <= range < 2^32 at the end of the step.
RenormalisationTerminates ==
    rnPc # "idle" => RenormOk(rnEnc) /\ RenormOk(rnDec)

\* a run of 255 and then 0, 0, 255 were encoded and decoded: the counts were
\* halved before the last byte, and some step has shifted twice
RenormalisationTerminatesWitness ==
    /\ rnPc = "decode"
    /\ rnInput = [symbol |-> 255, run |-> FmRunLen, tail |-> <<0, 0, 255>>]
    /\ rnCount = FmRunLen + 3
    /\ rnDec.model.counts[255] = ((FmRunLen + 1) \div 2) + 2
    /\ rnDec.model = rnEnc.model
    /\ rnEnc.worst.shifts = 2 /\ rnDec.worst.shifts = 2
    /\ rnEnc.worst.total = MaxFreq - 1

\* ---------------------------------------------------------------------
\* The encoder at each call of write_byte_carry
\* ---------------------------------------------------------------------

\* the encoder's cache, run and buffer after the first k of the pushed
\* values, from init
RECURSIVE PushedTo(_, _)
PushedTo(pushed, k) ==
    IF k = 0 THEN RangeEncoderInit
    ELSE write_byte_carry(PushedTo(pushed, k - 1), pushed[k])

\* cache, ff_count, started and buffer of an encoder
CarryState(e) ==
    [cache |-> e.cache, ff_count |-> e.ff_count, started |-> e.started,
     buffer |-> e.buffer]

\* C26: the carry never overflows: in every encoder state low < 2^33, also
\* after the addition of encode_safe whatever the next symbol is, so that every value pushed to write_byte_carry is at most 0x1FF; whenever a
\* value above 0xFF is pushed to a started encoder its cached byte is below
\* 0xFF, so that cache + 1 fits in 8 bits and every byte written is in 0..255.
CarryNeverOverflows ==
    rcPc \in {"encode", "compressed", "decode", "done"} =>
        /\ enc.low[1] < 2 * W16
        /\ rcPc = "encode" =>
              /\ \A symbol \in Symbols :
                    EncNarrow(enc, encModel, symbol).low[1] < 2 * W16
              /\ CarryState(PushedTo(rcPushed, Len(rcPushed))) = CarryState(enc)
        /\ \A k \in 1..Len(rcPushed) :
              /\ rcPushed[k] \in 0..511
              /\ LET e == PushedTo(rcPushed, k - 1)
                 IN (rcPushed[k] > 255 /\ e.started) => e.cache < 255
        /\ enc.cache \in 0..255
        /\ \A i \in 1..Len(enc.buffer) : enc.buffer[i] \in 0..255

\* a value above 0xFF was pushed to a started encoder whose cache was 254,
\* behind it a run of 0xFF: 255 was written, the highest byte cache + 1 can be
CarryNeverOverflowsWitness ==
    /\ rcPc = "compressed"
    /\ \E k \in 2..Len(rcPushed) :
          LET e == PushedTo(rcPushed, k - 1)
          IN /\ rcPushed[k] > 255
             /\ e.started
             /\ e.ff_count > 0
             /\ e.cache = 254
             /\ rcData[Len(e.buffer) + 1] = 255

\* C27: no byte is dropped while the encoder is unstarted: the first value
\* pushed to write_byte_carry is below 0xFF, so that ff_count = 0 whenever
\* started is false (nothing is pushed by then), the call that sets started
\* has no run of 0xFF to discard, and from then on the buffer, the cache and
\* the run hold one byte for every value pushed.
NoByteDroppedUnstarted ==
    rcPc \in {"start", "encode", "compressed", "decode", "done"} =>
        /\ Len(rcPushed) > 0 => rcPushed[1] < 255
        /\ ~enc.started => enc.ff_count = 0 /\ rcPushed = <<>> /\ enc.buffer = <<>>
        /\ enc.started =>
              /\ Len(rcPushed) > 0
              /\ PushedTo(rcPushed, 1) =
                     [RangeEncoderInit EXCEPT !.started = TRUE,
                                              !.cache = rcPushed[1]]
              /\ Len(enc.buffer) + 1 + enc.ff_count = Len(rcPushed)

\* the first byte of the input was 255: the first value pushed is 0xFE, the
\* highest a first value can be, and it is the first byte of the output
NoByteDroppedUnstartedWitness ==
    /\ rcPc = "compressed"
    /\ rcInput[1] = 255
    /\ rcPushed[1] = 254
    /\ rcData[1] = 254
    /\ Len(rcData) + 1 = Len(rcPushed)

\* ---------------------------------------------------------------------
\* engine/decoder.go: parallelUpsample, the rows of its workers
\* ---------------------------------------------------------------------

\* the largest height of dst
MaxRows == 6

\* rowsPerWorker := dstH / workers; if rowsPerWorker < 1 { rowsPerWorker = 1 }
rowsPerWorker(dstH, nWorkers) == Max(1, dstH \div nWorkers)

\* startY := i * rowsPerWorker
startY(i, dstH, nWorkers) == i * rowsPerWorker(dstH, nWorkers)

\* endY := startY + rowsPerWorker; if i == workers-1 { endY = dstH }
endY(i, dstH, nWorkers) ==
    IF i = nWorkers - 1 THEN dstH
    ELSE startY(i, dstH, nWorkers) + rowsPerWorker(dstH, nWorkers)

UpInit ==
    /\ upPc = "spawn"
    /\ upDstH \in 1..MaxRows
    /\ upCpu \in 1..MaxCpu
    /\ upI = 0
    /\ upWorkers = <<>>
    /\ UpOthersIdle

\* one iteration of for i := 0; i < workers; i++: wg.Add(1); go func(y0, y1)
UpSpawn ==
    /\ upPc = "spawn"
    /\ upI < upCpu
    /\ upWorkers' = Append(upWorkers,
                           [y0 |-> startY(upI, upDstH, upCpu),
                            y1 |-> endY(upI, upDstH, upCpu),
                            pc |-> "ready", rows |-> {}])
    /\ upI' = upI + 1
    /\ UNCHANGED <<upPc, upDstH, upCpu>>
    /\ UpFrame

\* the loop is over: wg.Wait() is entered
UpSpawned ==
    /\ upPc = "spawn"
    /\ upI = upCpu
    /\ upPc' = "wait"
    /\ UNCHANGED <<upDstH, upCpu, upI, upWorkers>>
    /\ UpFrame

\* a worker: for y := y0; y < y1; y++ { row := dst.Pix[y*dst.Stride:];
\* ... row[x] = uint8(val) }.  dst.Pix has dstH rows: a row y >= dstH is an
\* index out of range, and the panic of a goroutine ends the program.
UpWorker(k) ==
    /\ upPc \in {"spawn", "wait"}
    /\ k \in 1..Len(upWorkers)
    /\ upWorkers[k].pc = "ready"
    /\ LET w == upWorkers[k]
           rows == {y \in 0..(MaxRows + MaxCpu + 2) : w.y0 <= y /\ y < w.y1}
       IN IF \E y \in rows : y >= upDstH
          THEN /\ upPc' = "panic"
               /\ upWorkers' = [upWorkers EXCEPT
                      ![k].pc = "panic",
                      ![k].rows = {y \in rows :
                                      \A z \in rows : z >= upDstH => y <= z}]
          ELSE /\ upPc' = upPc
               /\ upWorkers' = [upWorkers EXCEPT ![k].pc = "done",
                                                 ![k].rows = rows]
    /\ UNCHANGED <<upDstH, upCpu, upI>>
    /\ UpFrame

\* wg.Wait() returns
UpWait ==
    /\ upPc = "wait"
    /\ \A k \in 1..Len(upWorkers) : upWorkers[k].pc = "done"
    /\ upPc' = "done"
    /\ UNCHANGED <<upDstH, upCpu, upI, upWorkers>>
    /\ UpFrame

UpNext ==
    \/ UpSpawn
    \/ UpSpawned
    \/ \E k \in 1..MaxCpu : UpWorker(k)
    \/ UpWait

SpecUpsample == UpInit /\ [][UpNext]_vars

\* C28: the stripes of the chroma upsample stay in bounds: for every
\* dstH >= 1 and every number of workers >= 1, the row ranges [y0, y1) given
\* to the workers are pairwise disjoint, no range holds and no worker
\* addresses a row >= dstH, and once all workers are started the ranges cover
\* the rows 0..dstH-1.
UpsampleStripesInBounds ==
    upPc # "idle" =>
        /\ upPc # "panic"
        /\ \A k \in 1..Len(upWorkers) :
              LET w == upWorkers[k]
              IN /\ \A y \in w.rows : y < upDstH
                 /\ w.y0 < w.y1 => w.y1 <= upDstH
                 /\ \A j \in 1..Len(upWorkers) :
                       j # k => \/ w.y1 <= upWorkers[j].y0
                                \/ upWorkers[j].y1 <= w.y0
                                \/ w.y0 >= w.y1
                                \/ upWorkers[j].y0 >= upWorkers[j].y1
        /\ upPc \in {"wait", "done"} =>
              \A y \in 0..(upDstH - 1) :
                 \E k \in 1..Len(upWorkers) :
                    upWorkers[k].y0 <= y /\ y < upWorkers[k].y1

\* ---------------------------------------------------------------------
\* The workers of a deblocking pass against each other
\* ---------------------------------------------------------------------

\* an image of w x h whose colours vary from pixel to pixel, by small and
\* by large steps
VariedImage(w, h) ==
    [q \in (0..(w - 1)) \X (0..(h - 1)) |->
        <<(37 * q[1] + 11 * q[2]) % 64, (q[1] * q[1] + q[2]) % 50,
          255 - ((5 * q[1] + 3 * q[2]) % 40), 255>>]

\* the seams of the sequence edges filtered one after the other, from the
\* i-th on, each over n lines.  The guard holds always; it makes the image
\* after a seam be computed before the next seam is entered.
RECURSIVE FilterEdges(_, _, _, _, _)
FilterEdges(img, pass, edges, i, n) ==
    IF i > Len(edges) THEN img
    ELSE LET next == FilterSeam(img, pass, edges[i], 0, n)
         IN CASE DOMAIN next = DOMAIN img ->
                FilterEdges(next, pass, edges, i + 1, n)

Reversed(q) == [i \in 1..Len(q) |-> q[Len(q) + 1 - i]]

\* the length across the seams of a deblocking pass
AcrossOf(pass) == IF pass = "vdeblock" THEN postWidth ELSE postHeight

\* C29: the workers of a deblocking pass do not race: in the vertical pass,
\* and likewise in the horizontal pass, the edge slices of the workers are
\* disjoint and hold every seam, and the pixels a worker reads or writes (the
\* coordinates c-2..c+1 of each of its seams c, all inside the image) are
\* disjoint from the pixels every other worker of the pass writes; the
\* seams filtered in the reverse order give the same image as in order.
DeblockWorkersDoNotRace ==
    postPc \in {"vdeblock", "hdeblock"} =>
        LET across == AcrossOf(postPc)
            along == IF postPc = "vdeblock" THEN postHeight ELSE postWidth
            ws == {k[2] : k \in {j \in DOMAIN postWorkers : j[1] = postPc}}
            R(wk) == WorkerReads(postPc, postWidth, postHeight, postCpu, wk)
            W(wk) == WorkerWrites(postPc, postWidth, postHeight, postCpu, wk)
            axis == IF postPc = "vdeblock" THEN "v" ELSE "h"
            sample == VariedImage(postWidth, postHeight)
        IN /\ \A wk \in ws : \A a \in R(wk) \cup W(wk) :
                 a[3] \in 0..(postWidth - 1) /\ a[4] \in 0..(postHeight - 1)
           /\ \A wk \in ws : \A wj \in ws :
                 wk # wj =>
                    /\ EdgeSlice(across, postCpu, wk) \cap EdgeSlice(across, postCpu, wj) = {}
                    /\ Touched(R(wk) \cup W(wk)) \cap Touched(W(wj)) = {}
           /\ postOut # "" =>
                 UNION {EdgeSlice(across, postCpu, wk) : wk \in ws}
                     = {Edges(across)[i] : i \in 1..Len(Edges(across))}
           /\ postOut = "" =>
                 FilterEdges(sample, axis, Reversed(Edges(across)), 1, along)
                     = FilterEdges(sample, axis, Edges(across), 1, along)

\* the three workers of the vertical pass of an image 26 wide have each
\* filtered one seam: worker 0 wrote x = 7 and 8, worker 1 read x = 14..17
DeblockWorkersDoNotRaceWitness ==
    /\ postPc = "vdeblock"
    /\ postWidth = 26 /\ postCpu = 3
    /\ Joined("vdeblock")
    /\ <<0, "img", 7, 0>> \in postWrites /\ <<0, "img", 8, 0>> \in postWrites
    /\ <<1, "img", 14, 0>> \in postReads /\ <<1, "img", 17, 0>> \in postReads
    /\ <<2, "img", 24, 3>> \in postWrites
    /\ FilterEdges(VariedImage(26, 4), "v", Edges(26), 1, 4) # VariedImage(26, 4)

\* ---------------------------------------------------------------------
\* engine/decoder.go: gapDecodePlaneSplit on five arbitrary streams
\* ---------------------------------------------------------------------

\* the longest Angles and Counts stream
MaxStream == 2

\* the loop over the bins stops at a values stream with one byte left
BinsExhaustedOneByte(indices, values, ptrIdx, ptrVal) ==
    ptrIdx >= Len(indices) \/ ptrVal >= Len(values)

\* if ptrIdx >= len(indices) || ptrVal+1 >= len(values) { break }
BinsExhausted(indices, values, ptrIdx, ptrVal) ==
    ptrIdx >= Len(indices) \/ ptrVal + 1 >= Len(values)

\* if ptrA >= len(angles) || ptrC >= len(counts) || pIdx >= numPatches { break }
PatchesExhausted(streams, ptr, pIdx, numPatches) ==
    \/ ptr.a >= Len(streams.angles)
    \/ ptr.c >= Len(streams.counts)
    \/ pIdx >= numPatches

\* the byte q[i] of a stream, i counted from 0; a position beyond the stream
\* has no byte (the index expression panics)
ByteAt(q, i) == IF i >= 0 /\ i < Len(q) THEN q[i + 1] ELSE -1

\* for k := 0; k < count; k++ { ... }: the positions of indices and values
\* indexed, the slots of fCoeffs stored to and the pointers after the loop
RECURSIVE BinLoop(_, _, _, _, _)
BinLoop(indices, values, k, count, r) ==
    IF k >= count \/ BinsExhausted(indices, values, r.ptrIdx, r.ptrVal)
    THEN r
    ELSE LET idx == ByteAt(indices, r.ptrIdx)
         IN BinLoop(indices, values, k + 1, count,
                    [ptrIdx |-> r.ptrIdx + 1,
                     ptrVal |-> r.ptrVal + 2,
                     access |-> r.access \cup
                                   {<<"indices", r.ptrIdx>>, <<"values", r.ptrVal>>,
                                    <<"values", r.ptrVal + 1>>},
                     slots |-> r.slots \cup
                                  (IF idx < 64 THEN {2 * idx, 2 * idx + 1} ELSE {})])

\* the lengths of MaxVals, and of Values
SpMaxValLens == {0, 3, 4}

SpValueLens == {0, 1, 4}

SpInit ==
    /\ spPc = "start"
    /\ \E pIdx \in {0, 1}, size \in {<<8, 8>>, <<9, 8>>} :
          spPlane = [idx |-> pIdx, width |-> size[1], height |-> size[2],
                     initVal |-> IF pIdx > 0 THEN 128 ELSE 0]
    /\ \E nA \in 0..MaxStream, counts \in SeqsUpTo({0, 1, 255}, MaxStream),
          nMax \in SpMaxValLens, indices \in SeqsUpTo({0, 64, 255}, 2),
          nVal \in SpValueLens :
          spStreams = [angles |-> Repeat(0, nA), counts |-> counts,
                       maxVals |-> Repeat(0, nMax), indices |-> indices,
                       values |-> Repeat(127, nVal)]
    /\ spX = 0 /\ spY = 0
    /\ spPtr = [a |-> 0, c |-> 0, max |-> 0, idx |-> 0, val |-> 0]
    /\ spCoords = <<>>
    /\ spAccess = {} /\ spSlots = {}
    /\ spPix = <<>>
    /\ SpOthersIdle

\* img := image.NewGray(...); fillPlane(img, initVal); the buffers
SpBegin ==
    /\ spPc = "start"
    /\ spPix' = [q \in (0..(spPlane.width - 1)) \X (0..(spPlane.height - 1)) |->
                    [by |-> "fillPlane", val |-> spPlane.initVal]]
    /\ spPc' = "parse"
    /\ UNCHANGED <<spPlane, spStreams, spX, spY, spPtr, spCoords, spAccess, spSlots>>
    /\ SpFrame

\* one iteration of the loop over x that parses a patch.  An index beyond a
\* stream or beyond allCoeffs is a panic.
SpParsePatch ==
    /\ spPc = "parse"
    /\ spY < Padded(spPlane.height)
    /\ spX < Padded(spPlane.width)
    /\ ~PatchesExhausted(spStreams, spPtr, Len(spCoords),
                         NumPatches(spPlane.width, spPlane.height))
    /\ LET hasMax == spPtr.max + 4 <= Len(spStreams.maxVals)
           count == ByteAt(spStreams.counts, spPtr.c)
           bins == BinLoop(spStreams.indices, spStreams.values, 0, count,
                           [ptrIdx |-> spPtr.idx, ptrVal |-> spPtr.val,
                            access |-> {}, slots |-> {}])
           access == {<<"angles", spPtr.a>>, <<"counts", spPtr.c>>}
                         \cup (IF hasMax
                               THEN {<<"maxVals", spPtr.max + i>> : i \in 0..3}
                               ELSE {})
                         \cup bins.access
       IN /\ spAccess' = spAccess \cup access
          /\ spSlots' = spSlots \cup {<<Len(spCoords), s>> : s \in bins.slots}
          /\ IF \/ \E a \in access : a[2] >= Len(spStreams[a[1]])
                \/ \E s \in bins.slots : s >= 2 * PixelCount
             THEN spPc' = "panic" /\ UNCHANGED <<spPtr, spCoords, spX, spY>>
             ELSE /\ spPc' = "parse"
                  /\ spPtr' = [a |-> spPtr.a + 1, c |-> spPtr.c + 1,
                               max |-> IF hasMax THEN spPtr.max + 4 ELSE spPtr.max,
                               idx |-> bins.ptrIdx, val |-> bins.ptrVal]
                  /\ spCoords' = Append(spCoords, <<spX, spY>>)
                  /\ spX' = spX + 8
                  /\ spY' = spY
    /\ UNCHANGED <<spPlane, spStreams, spPix>>
    /\ SpFrame

\* the loop over x ends, at the end of the row or by the break: the next row
SpNextRow ==
    /\ spPc = "parse"
    /\ spY < Padded(spPlane.height)
    /\ \/ spX >= Padded(spPlane.width)
       \/ PatchesExhausted(spStreams, spPtr, Len(spCoords),
                           NumPatches(spPlane.width, spPlane.height))
    /\ spX' = 0
    /\ spY' = spY + 8
    /\ UNCHANGED <<spPc, spPlane, spStreams, spPtr, spCoords, spAccess, spSlots,
                   spPix>>
    /\ SpFrame

\* the loop over y is over; the parallel stage: the pixels of the patches
\* parsed, inside the plane, are stored, unless GapDecompressPatches fails
SpReconstruct ==
    /\ spPc = "parse"
    /\ spY >= Padded(spPlane.height)
    /\ \E ok \in BOOLEAN :
          spPix' = [q \in DOMAIN spPix |->
                       IF ok /\ \E p \in 1..Len(spCoords) :
                                   /\ q[1] \in spCoords[p][1]..(spCoords[p][1] + 7)
                                   /\ q[2] \in spCoords[p][2]..(spCoords[p][2] + 7)
                       THEN [by |-> "patch",
                             val |-> (q[1] \div 8)
                                       + (q[2] \div 8) * (Padded(spPlane.width) \div 8)]
                       ELSE spPix[q]]
    /\ spPc' = "done"
    /\ UNCHANGED <<spPlane, spStreams, spX, spY, spPtr, spCoords, spAccess, spSlots>>
    /\ SpFrame

SpNext ==
    \/ SpBegin
    \/ SpParsePatch
    \/ SpNextRow
    \/ SpReconstruct

SpecParse == SpInit /\ [][SpNext]_vars

\* C30: the split-stream parser is memory-safe on arbitrary streams: for any
\* five byte streams and any plane, gapDecodePlaneSplit indexes no stream at
\* or beyond its length and stores to no coefficient slot outside the 128
\* floats of the patch it parses (bins with an index >= 64 are skipped); it
\* parses patches in grid order until Angles or Counts is exhausted and none
\* after; and every pixel of a patch it did not parse keeps the plane's
\* initial value, 0 for Y and 128 for chroma.
ParserMemorySafe ==
    spPc # "idle" =>
        LET numPatches == NumPatches(spPlane.width, spPlane.height)
            most == Min(numPatches,
                        Min(Len(spStreams.angles), Len(spStreams.counts)))
        IN /\ spPc # "panic"
           /\ \A a \in spAccess : a[2] >= 0 /\ a[2] < Len(spStreams[a[1]])
           /\ \A s \in spSlots : s[1] \in 0..(numPatches - 1) /\ s[2] \in 0..127
           /\ Len(spCoords) <= most
           /\ \A p \in 1..Len(spCoords) :
                 spCoords[p] = <<CoordX(p - 1, spPlane.width),
                                 CoordY(p - 1, spPlane.width)>>
           /\ spPc = "done" =>
                 /\ Len(spCoords) = most
                 /\ spPlane.initVal = IF spPlane.idx = 0 THEN 0 ELSE 128
                 /\ \A q \in DOMAIN spPix :
                       (q[1] \div 8) + (q[2] \div 8) * (Padded(spPlane.width) \div 8)
                             >= Len(spCoords)
                          => spPix[q] = [by |-> "fillPlane",
                                         val |-> spPlane.initVal]

\* a chroma plane of two patches with one angle: the first patch was parsed
\* from a count of 255 that the streams did not hold, with a bin index above
\* 63 skipped, and the pixels of the second patch are 128
ParserMemorySafeWitness ==
    /\ spPc = "done"
    /\ spPlane.width = 9 /\ spPlane.idx = 1
    /\ Len(spStreams.angles) = 1
    /\ spStreams.counts = <<255, 1>>
    /\ spStreams.indices = <<0, 64>>
    /\ Len(spStreams.values) = 4
    /\ Len(spCoords) = 1
    /\ spPtr.idx = 2 /\ spPtr.val = 4
    /\ spSlots = {<<0, 0>>, <<0, 1>>}
    /\ spPix[<<0, 0>>] = [by |-> "patch", val |-> 0]
    /\ spPix[<<8, 0>>] = [by |-> "fillPlane", val |-> 128]
====
